---- MODULE Spec2Model ----
(***************************************************************************)
(* State-machine model of the position/risk manager of gann_algomojo       *)
(* (src/src/risk_manager.py, class RiskManager) and of its level           *)
(* calculator (src/src/gann_calculator.py, class GannCalculator).          *)
(*                                                                         *)
(* Numbers.  Prices, balances and P&L are Python floats in the source.     *)
(* The model keeps them as integers (all inputs are whole numbers, so      *)
(* sums, differences and products are exact in both as long as they fit    *)
(* the significand; the running sums of money are rounded to MantissaBits  *)
(* binary digits as a float addition rounds to 53); a quotient that the    *)
(* code only compares with a configured fraction is compared by cross      *)
(* multiplication, and a fraction such as 0.02 is the pair <<2, 100>>.     *)
(* A division by zero is an outcome of its own (Python raises              *)
(* ZeroDivisionError).                                                     *)
(*                                                                         *)
(* None is the empty tuple <<>>, a present optional value v is <<v>>.      *)
(* The empty dict {} returned for an unknown id is EmptyDict.              *)
(* The time stamps (entry_time, last_update, exit_time) come from the      *)
(* clock and are left out of the position records.                         *)
(***************************************************************************)
EXTENDS Integers, Sequences, FiniteSets, TLC

VARIABLES
    active_positions,   \* self.active_positions: order id -> position dict
    daily_pnl,          \* self.daily_pnl
    peak_balance,       \* self.peak_balance
    current_balance,    \* self.current_balance
    total_trades,       \* self.total_trades
    winning_trades,     \* self.winning_trades
    losing_trades,      \* self.losing_trades
    total_profit,       \* self.total_profit
    total_loss,         \* self.total_loss
    max_positions,      \* self.max_positions (fixed at construction)
    call,               \* the last call made: [op, id, ret], or the
                        \* operation with its arguments and its result
    params,             \* the calculator's increments, num_values and
                        \* include_lower (fixed at construction)
    prev_close,         \* the price the calculator is asked about
    running,            \* GannTradingBot.running
    trading_config,     \* the bot's trading configuration (fixed)
    pc,                 \* where each thread of the bot stands
    processing,         \* locals of the signal-processor thread
    monitoring,         \* locals of the position-monitor thread
    closing,            \* locals of _close_all_positions (main thread)
    gateway,            \* the broker: ids issued, exit orders answered
    validated,          \* the trades can_place_trade has allowed so far
    positions_file,     \* positions.json: absent (None) or <<its map>>
    positions,          \* GannTradingBot.positions
    frames,             \* the close_position calls two threads are in
    retry               \* the RetryHandler of the trade executor

counters == <<daily_pnl, peak_balance, current_balance, total_trades,
              winning_trades, losing_trades, total_profit, total_loss>>

manager == <<active_positions, counters, max_positions>>

\* the level calculator and its input
gann == <<params, prev_close>>

\* the orchestrator (src/src/trading_bot.py, class GannTradingBot)
bot == <<running, trading_config, pc, processing, monitoring, closing,
         gateway, validated, positions_file, positions, frames, retry>>

vars == <<manager, call, gann, bot>>

----------------------------------------------------------------------------
(* Bounds of the model and the inputs the calls are drawn from.            *)

\* close_position calls that succeed in one behaviour (caps the counters)
MaxTrades == 2

\* the largest price the calculator is asked about, in hundredths
MaxPriceCents == 410

\* the binary digits of a float's significand: 53 in the source, fewer
\* here, so that a sum of a few trades is already beyond them
MantissaBits == 10

\* the most trades closed in the ledger specification
MaxLedgerTrades == 3

OrderIds == {"A", "B"}
Symbols == {"X", "Y"}
\* <<entry price, stop loss>>
PriceLevels == {<<100, 0>>, <<100, 95>>}
UpdatePrices == {110}
ExitPrices == {90, 100, 110}
Balances == {0, 1000}
Reasons == {"Stop loss triggered"}
MaxPositionsChoices == {1, 2}

\* the trades proposed to can_place_trade:
\* <<action, quantity, entry price, stop loss, target price>>
ProposedOrders ==
    {<<"BUY", 0, 100, 95, <<110>>>>,     \* no quantity
     <<"BUY", 1, 0, 95, <<>>>>,          \* no entry price
     <<"SELL", 1, 100, 0, <<>>>>,        \* no stop
     <<"BUY", 1, 100, 105, <<110>>>>,    \* long, stop above the entry
     <<"SELL", 1, 100, 95, <<90>>>>,     \* short, stop below the entry
     <<"BUY", 1, 100, 105, <<>>>>,       \* the same without a target
     <<"BUY", 1, 100, 95, <<90>>>>,      \* long, target below the entry
     <<"SELL", 1, 100, 105, <<110>>>>,   \* short, target above the entry
     <<"BUY", 1, 100, 95, <<107>>>>,     \* reward 7 for risk 5
     <<"BUY", 1, 100, 95, <<110>>>>,     \* risk 5
     <<"BUY", 2, 100, 95, <<110>>>>,     \* risk 10
     <<"SELL", 1, 100, 105, <<90>>>>,    \* risk 5
     <<"SELL", 2, 100, 105, <<>>>>,      \* risk 10
     <<"BUY", 3, 100, 95, <<>>>>,        \* risk 15
     <<"BUY", 5, 100, 95, <<110>>>>}     \* risk 25

\* the orders the callers register
RegisteredOrders ==
    {<<"BUY", 3, 100, 95, <<110>>>>,     \* long with a target
     <<"SELL", 3, 100, 105, <<>>>>}      \* short without a target

----------------------------------------------------------------------------
(* Configuration defaults, RiskManager.__init__.                           *)

max_risk_per_trade == <<1, 100>>
max_risk_per_symbol == <<2, 100>>
max_daily_loss == <<5, 100>>
max_drawdown == <<10, 100>>
min_risk_reward == <<3, 2>>

None == <<>>
EmptyDict == <<>>

\* 2^k
RECURSIVE Pow2(_)
Pow2(k) == IF k = 0 THEN 1 ELSE 2 * Pow2(k - 1)

\* the number of binary digits of m > 0
RECURSIVE bit_length(_)
bit_length(m) == IF m = 0 THEN 0 ELSE 1 + bit_length(m \div 2)

\* the float nearest to the number n: n itself when its significand fits,
\* otherwise the nearer of the two neighbouring floats, the one with the
\* even significand when n is half way (IEEE 754 round-half-even)
float(n) ==
    LET m == IF n < 0 THEN -n ELSE n
        sign == IF n < 0 THEN -1 ELSE 1
        ulp == Pow2(bit_length(m) - MantissaBits)
        below == m - (m % ulp)
    IN  IF m < Pow2(MantissaBits) THEN n
        ELSE IF 2 * (m - below) < ulp THEN sign * below
        ELSE IF 2 * (m - below) > ulp THEN sign * (below + ulp)
        ELSE IF (below \div ulp) % 2 = 0 THEN sign * below
        ELSE sign * (below + ulp)

\* a + b on floats
float_sum(a, b) == float(a + b)

\* num / den > r   (den # 0, r a fraction with a positive denominator)
QuotientGT(num, den, r) ==
    IF den > 0 THEN num * r[2] > r[1] * den ELSE num * r[2] < r[1] * den

\* num / den < r
QuotientLT(num, den, r) ==
    IF den > 0 THEN num * r[2] < r[1] * den ELSE num * r[2] > r[1] * den

\* sum(p.get('risk_amount', 0) for p in symbol_positions), over the ids
RECURSIVE SumRisk(_)
SumRisk(ids) ==
    IF ids = {} THEN 0
    ELSE LET id == CHOOSE i \in ids : TRUE
         IN  active_positions[id].risk_amount + SumRisk(ids \ {id})

_calculate_trade_risk(entry_price, stop_loss, quantity) ==
    LET risk_per_unit == IF entry_price > stop_loss
                         THEN entry_price - stop_loss
                         ELSE stop_loss - entry_price
    IN  risk_per_unit * quantity

----------------------------------------------------------------------------
(* Results of a call.                                                      *)

Returned(allowed, reason) ==
    [outcome |-> "return", allowed |-> allowed, reason |-> reason]

Raised(exception) ==
    [outcome |-> "raise", exception |-> exception]

Call(op, id, ret) == [op |-> op, id |-> id, ret |-> ret]

----------------------------------------------------------------------------
(* can_place_trade: the checks, in the order of the code.  The reason      *)
(* strings are the code's, without the formatted numbers.                  *)

\* variant: the limit compared with > instead of >=
max_positions_reached_strict ==
    Cardinality(DOMAIN active_positions) > max_positions

max_positions_reached ==
    Cardinality(DOMAIN active_positions) >= max_positions

invalid_quantity(quantity) == quantity <= 0

invalid_price_levels(entry_price, stop_loss) ==
    entry_price <= 0 \/ stop_loss <= 0

potential_profit(action, entry_price, target_price) ==
    IF action = "BUY" THEN target_price[1] - entry_price
                      ELSE entry_price - target_price[1]

potential_loss(action, entry_price, stop_loss) ==
    IF action = "BUY" THEN entry_price - stop_loss
                      ELSE stop_loss - entry_price

\* the ids of [p for p in active_positions.values() if p.get('symbol') == symbol]
symbol_positions(symbol) ==
    {id \in DOMAIN active_positions : active_positions[id].symbol = symbol}

\* lines 178-186: "pass", "fail", or "raise" on a zero current_balance
symbol_risk_check(symbol, entry_price, stop_loss, quantity) ==
    IF symbol_positions(symbol) # {}
    THEN LET total_symbol_risk == SumRisk(symbol_positions(symbol))
             new_risk == _calculate_trade_risk(entry_price, stop_loss, quantity)
         IN  IF current_balance = 0 THEN "raise"
             ELSE IF QuotientGT(total_symbol_risk + new_risk, current_balance,
                                max_risk_per_symbol)
                  THEN "fail" ELSE "pass"
    ELSE "pass"

\* daily_pnl < -1 * (current_balance * max_daily_loss)
daily_loss_exceeded ==
    daily_pnl * max_daily_loss[2] < -1 * (current_balance * max_daily_loss[1])

drawdown_exceeded ==
    /\ peak_balance > 0
    /\ QuotientGT(peak_balance - current_balance, peak_balance, max_drawdown)

can_place_trade(symbol, action, quantity, entry_price, stop_loss, target_price) ==
    IF max_positions_reached
    THEN Returned(FALSE, "Maximum positions reached")
    ELSE IF invalid_quantity(quantity)
    THEN Returned(FALSE, "Invalid quantity")
    ELSE IF invalid_price_levels(entry_price, stop_loss)
    THEN Returned(FALSE, "Invalid price levels")
    ELSE IF target_price # None
            /\ potential_loss(action, entry_price, stop_loss) <= 0
    THEN Returned(FALSE, "Invalid potential loss")
    ELSE IF target_price # None
            /\ QuotientLT(potential_profit(action, entry_price, target_price),
                          potential_loss(action, entry_price, stop_loss),
                          min_risk_reward)
    THEN Returned(FALSE, "Risk-reward ratio too low")
    ELSE IF symbol_risk_check(symbol, entry_price, stop_loss, quantity) = "raise"
    THEN Raised("ZeroDivisionError")
    ELSE IF symbol_risk_check(symbol, entry_price, stop_loss, quantity) = "fail"
    THEN Returned(FALSE, "Maximum risk per symbol exceeded")
    ELSE IF daily_loss_exceeded
    THEN Returned(FALSE, "Daily loss limit exceeded")
    ELSE IF drawdown_exceeded
    THEN Returned(FALSE, "Maximum drawdown exceeded")
    ELSE Returned(TRUE, "Trade validated")

\* variant: the validation also starts a new day of P&L
CanPlaceTradeCall_resets_daily(symbol, action, quantity, entry_price, stop_loss, target_price) ==
    /\ call' = Call("can_place_trade", "",
                    can_place_trade(symbol, action, quantity, entry_price,
                                    stop_loss, target_price))
    /\ daily_pnl' = 0
    /\ UNCHANGED <<active_positions, peak_balance, current_balance,
                   total_trades, winning_trades, losing_trades, total_profit,
                   total_loss, max_positions>>

CanPlaceTradeCall(symbol, action, quantity, entry_price, stop_loss, target_price) ==
    /\ call' = Call("can_place_trade", "",
                    can_place_trade(symbol, action, quantity, entry_price,
                                    stop_loss, target_price))
    /\ UNCHANGED manager

----------------------------------------------------------------------------
(* calculate_position_size and the account metrics.                        *)

\* variant: the risk amount multiplied by the risk per share
position_size_times_risk(account_balance, risk_per_share) ==
    LET num == account_balance * max_risk_per_trade[1] * risk_per_share
        den == max_risk_per_trade[2]
    IN  IF num >= 0 THEN num \div den ELSE -((-num) \div den)

\* int(risk_amount / risk_per_share): truncation towards zero
position_size(account_balance, risk_per_share) ==
    LET num == account_balance * max_risk_per_trade[1]
        den == risk_per_share * max_risk_per_trade[2]
    IN  IF num >= 0 THEN num \div den ELSE -((-num) \div den)

\* variant: the peak follows the balance down as well
balance_update_peak_follows(account_balance) ==
    /\ current_balance' = account_balance
    /\ peak_balance' = account_balance

balance_update(account_balance) ==
    /\ current_balance' = account_balance
    /\ peak_balance' = IF account_balance > peak_balance
                       THEN account_balance ELSE peak_balance

\* the observation of a calculate_position_size call, with its arguments
SizingCall(account_balance, entry_price, stop_loss, ret) ==
    [op |-> "calculate_position_size", account_balance |-> account_balance,
     entry_price |-> entry_price, stop_loss |-> stop_loss, ret |-> ret]

calculate_position_size(account_balance, entry_price, stop_loss) ==
    IF entry_price <= 0 \/ stop_loss <= 0
    THEN /\ call' = SizingCall(account_balance, entry_price, stop_loss, 0)
         /\ UNCHANGED manager
    ELSE LET risk_per_share == IF entry_price > stop_loss
                               THEN entry_price - stop_loss
                               ELSE stop_loss - entry_price
         IN  /\ balance_update(account_balance)
             /\ call' = SizingCall(account_balance, entry_price, stop_loss,
                             IF risk_per_share <= 0 THEN 0
                             ELSE position_size(account_balance, risk_per_share))
             /\ UNCHANGED <<active_positions, daily_pnl, total_trades,
                            winning_trades, losing_trades, total_profit,
                            total_loss, max_positions>>

\* variant: the peak is left as it is
update_account_metrics_balance_only(account_balance) ==
    /\ current_balance' = account_balance
    /\ call' = Call("update_account_metrics", "", None)
    /\ UNCHANGED <<active_positions, daily_pnl, peak_balance, total_trades,
                   winning_trades, losing_trades, total_profit, total_loss,
                   max_positions>>

update_account_metrics(account_balance) ==
    /\ balance_update(account_balance)
    /\ call' = Call("update_account_metrics", "", None)
    /\ UNCHANGED <<active_positions, daily_pnl, total_trades, winning_trades,
                   losing_trades, total_profit, total_loss, max_positions>>

reset_daily_metrics ==
    /\ daily_pnl' = 0
    /\ call' = Call("reset_daily_metrics", "", None)
    /\ UNCHANGED <<active_positions, peak_balance, current_balance,
                   total_trades, winning_trades, losing_trades, total_profit,
                   total_loss, max_positions>>

----------------------------------------------------------------------------
(* register_position, update_position, close_position.                     *)

\* the bookkeeping ratio potential_profit / potential_loss, kept as the pair
risk_reward_of(action, quantity, entry_price, stop_loss, target_price) ==
    IF target_price # None /\ target_price[1] > 0
    THEN LET profit == potential_profit(action, entry_price, target_price) * quantity
             loss == potential_loss(action, entry_price, stop_loss) * quantity
         IN  IF loss > 0 THEN <<profit, loss>> ELSE None
    ELSE None

new_position(order_id, symbol, action, quantity, entry_price, stop_loss, target_price) ==
    [order_id |-> order_id,
     symbol |-> symbol,
     action |-> action,
     quantity |-> quantity,
     entry_price |-> entry_price,
     stop_loss |-> stop_loss,
     target_price |-> target_price,
     current_price |-> entry_price,
     risk_amount |-> _calculate_trade_risk(entry_price, stop_loss, quantity),
     risk_reward |-> risk_reward_of(action, quantity, entry_price, stop_loss,
                                    target_price),
     unrealized_pnl |-> 0,
     status |-> "open"]

\* self.active_positions[order_id] = position
register_position(order_id, symbol, action, quantity, entry_price, stop_loss, target_price) ==
    /\ active_positions' =
           [id \in DOMAIN active_positions \cup {order_id} |->
               IF id = order_id
               THEN new_position(order_id, symbol, action, quantity,
                                 entry_price, stop_loss, target_price)
               ELSE active_positions[id]]
    /\ call' = Call("register_position", order_id, order_id)
    /\ UNCHANGED <<counters, max_positions>>

\* (current - entry) * qty for BUY, (entry - current) * qty otherwise
directional_pnl(position, price) ==
    IF position.action = "BUY"
    THEN (price - position.entry_price) * position.quantity
    ELSE (position.entry_price - price) * position.quantity

\* variant: no membership test, the lookup of an unknown id raises KeyError
update_position_unchecked(position_id, current_price) ==
    IF position_id \notin DOMAIN active_positions
    THEN /\ call' = Call("update_position", position_id, Raised("KeyError"))
         /\ UNCHANGED manager
    ELSE LET old == active_positions[position_id]
             position == [old EXCEPT
                             !.current_price = current_price,
                             !.unrealized_pnl = directional_pnl(old, current_price)]
         IN  /\ active_positions' =
                    [active_positions EXCEPT ![position_id] = position]
             /\ call' = Call("update_position", position_id, position)
             /\ UNCHANGED <<counters, max_positions>>

\* variant: the update also recomputes the risk from the current price
update_position_rerisks(position_id, current_price) ==
    IF position_id \notin DOMAIN active_positions
    THEN /\ call' = Call("update_position", position_id, EmptyDict)
         /\ UNCHANGED manager
    ELSE LET old == active_positions[position_id]
             position == [old EXCEPT
                             !.current_price = current_price,
                             !.unrealized_pnl = directional_pnl(old, current_price),
                             !.risk_amount = _calculate_trade_risk(
                                 current_price, old.stop_loss, old.quantity)]
         IN  /\ active_positions' =
                    [active_positions EXCEPT ![position_id] = position]
             /\ call' = Call("update_position", position_id, position)
             /\ UNCHANGED <<counters, max_positions>>

\* variant: every action but SELL is marked to market as a long
update_position_long_unless_sell(position_id, current_price) ==
    IF position_id \notin DOMAIN active_positions
    THEN /\ call' = Call("update_position", position_id, EmptyDict)
         /\ UNCHANGED manager
    ELSE LET old == active_positions[position_id]
             position == [old EXCEPT
                             !.current_price = current_price,
                             !.unrealized_pnl =
                                 IF old.action # "SELL"
                                 THEN (current_price - old.entry_price) * old.quantity
                                 ELSE (old.entry_price - current_price) * old.quantity]
         IN  /\ active_positions' =
                    [active_positions EXCEPT ![position_id] = position]
             /\ call' = Call("update_position", position_id, position)
             /\ UNCHANGED <<counters, max_positions>>

update_position(position_id, current_price) ==
    IF position_id \notin DOMAIN active_positions
    THEN /\ call' = Call("update_position", position_id, EmptyDict)
         /\ UNCHANGED manager
    ELSE LET old == active_positions[position_id]
             position == [old EXCEPT
                             !.current_price = current_price,
                             !.unrealized_pnl = directional_pnl(old, current_price)]
         IN  /\ active_positions' =
                    [active_positions EXCEPT ![position_id] = position]
             /\ call' = Call("update_position", position_id, position)
             /\ UNCHANGED <<counters, max_positions>>

\* the copy of the position that close_position returns
closed_position(position, exit_price, reason) ==
    [order_id |-> position.order_id,
     symbol |-> position.symbol,
     action |-> position.action,
     quantity |-> position.quantity,
     entry_price |-> position.entry_price,
     stop_loss |-> position.stop_loss,
     target_price |-> position.target_price,
     current_price |-> position.current_price,
     risk_amount |-> position.risk_amount,
     risk_reward |-> position.risk_reward,
     unrealized_pnl |-> position.unrealized_pnl,
     status |-> "closed",
     exit_price |-> exit_price,
     realized_pnl |-> directional_pnl(position, exit_price),
     exit_reason |-> reason]

\* variant: a trade that breaks even is counted neither as won nor as lost
record_trade_tie_uncounted(realized_pnl) ==
    /\ total_trades' = total_trades + 1
    /\ daily_pnl' = daily_pnl + realized_pnl
    /\ IF realized_pnl > 0
       THEN /\ winning_trades' = winning_trades + 1
            /\ total_profit' = total_profit + realized_pnl
            /\ UNCHANGED <<losing_trades, total_loss>>
       ELSE IF realized_pnl < 0
       THEN /\ losing_trades' = losing_trades + 1
            /\ total_loss' = total_loss - realized_pnl
            /\ UNCHANGED <<winning_trades, total_profit>>
       ELSE UNCHANGED <<winning_trades, total_profit, losing_trades, total_loss>>

\* variant: the win test is >= 0, a trade that breaks even is counted as won
record_trade_tie_wins(realized_pnl) ==
    /\ total_trades' = total_trades + 1
    /\ daily_pnl' = daily_pnl + realized_pnl
    /\ IF realized_pnl >= 0
       THEN /\ winning_trades' = winning_trades + 1
            /\ total_profit' = total_profit + realized_pnl
            /\ UNCHANGED <<losing_trades, total_loss>>
       ELSE /\ losing_trades' = losing_trades + 1
            /\ total_loss' = total_loss - realized_pnl
            /\ UNCHANGED <<winning_trades, total_profit>>

\* variant: a loss is added to total_loss with its sign
record_trade_signed_loss(realized_pnl) ==
    /\ total_trades' = total_trades + 1
    /\ daily_pnl' = float_sum(daily_pnl, realized_pnl)
    /\ IF realized_pnl > 0
       THEN /\ winning_trades' = winning_trades + 1
            /\ total_profit' = float_sum(total_profit, realized_pnl)
            /\ UNCHANGED <<losing_trades, total_loss>>
       ELSE /\ losing_trades' = losing_trades + 1
            /\ total_loss' = float_sum(total_loss, realized_pnl)
            /\ UNCHANGED <<winning_trades, total_profit>>

\* lines 351-360: the statistics of one closed trade; the three sums of
\* money are float additions
record_trade(realized_pnl) ==
    /\ total_trades' = total_trades + 1
    /\ daily_pnl' = float_sum(daily_pnl, realized_pnl)
    /\ IF realized_pnl > 0
       THEN /\ winning_trades' = winning_trades + 1
            /\ total_profit' = float_sum(total_profit, realized_pnl)
            /\ UNCHANGED <<losing_trades, total_loss>>
       ELSE /\ losing_trades' = losing_trades + 1
            /\ total_loss' = float_sum(total_loss,
                   IF realized_pnl < 0 THEN -realized_pnl ELSE realized_pnl)
            /\ UNCHANGED <<winning_trades, total_profit>>

\* variant: the closed position is marked closed but stays in the dict
remove_position_marks_closed(position_id) ==
    active_positions' =
        [active_positions EXCEPT ![position_id].status = "closed"]

\* variant: the del statement is missing
remove_position_skipped(position_id) ==
    active_positions' = active_positions

\* del self.active_positions[position_id]
remove_position(position_id) ==
    active_positions' =
        [id \in DOMAIN active_positions \ {position_id} |-> active_positions[id]]

close_position(position_id, exit_price, reason) ==
    IF position_id \notin DOMAIN active_positions
    THEN /\ call' = Call("close_position", position_id, EmptyDict)
         /\ UNCHANGED manager
    ELSE LET position == closed_position(active_positions[position_id],
                                         exit_price, reason)
         IN  /\ record_trade(position.realized_pnl)
             /\ remove_position(position_id)
             /\ call' = Call("close_position", position_id, position)
             /\ UNCHANGED <<peak_balance, current_balance, max_positions>>

\* the (should_exit, reason) tuple
ExitCheck(should_exit, reason) == <<should_exit, reason>>

\* variant: the stop is hit only when the price has gone through it
check_exit_conditions_strict(position, current_price) ==
    IF position = EmptyDict THEN ExitCheck(FALSE, "Invalid position")
    ELSE IF position.action = "BUY" /\ current_price < position.stop_loss
    THEN ExitCheck(TRUE, "Stop loss triggered")
    ELSE IF position.action = "SELL" /\ current_price > position.stop_loss
    THEN ExitCheck(TRUE, "Stop loss triggered")
    ELSE IF position.target_price # None /\ position.action = "BUY"
            /\ current_price >= position.target_price[1]
    THEN ExitCheck(TRUE, "Target price reached")
    ELSE IF position.target_price # None /\ position.action = "SELL"
            /\ current_price <= position.target_price[1]
    THEN ExitCheck(TRUE, "Target price reached")
    ELSE ExitCheck(FALSE, "No exit condition met")

check_exit_conditions(position, current_price) ==
    IF position = EmptyDict THEN ExitCheck(FALSE, "Invalid position")
    ELSE IF position.action = "BUY" /\ current_price <= position.stop_loss
    THEN ExitCheck(TRUE, "Stop loss triggered")
    ELSE IF position.action = "SELL" /\ current_price >= position.stop_loss
    THEN ExitCheck(TRUE, "Stop loss triggered")
    ELSE IF position.target_price # None /\ position.action = "BUY"
            /\ current_price >= position.target_price[1]
    THEN ExitCheck(TRUE, "Target price reached")
    ELSE IF position.target_price # None /\ position.action = "SELL"
            /\ current_price <= position.target_price[1]
    THEN ExitCheck(TRUE, "Target price reached")
    ELSE ExitCheck(FALSE, "No exit condition met")

\* the observation of a check_exit_conditions call, with its arguments
ExitCall(position, current_price, ret) ==
    [op |-> "check_exit_conditions", position |-> position,
     current_price |-> current_price, ret |-> ret]

\* max(x, 1)
at_least_one(x) == IF x > 1 THEN x ELSE 1

\* variant: the net profit leaves the losses out
get_trade_statistics_gross ==
    [total_trades |-> total_trades,
     winning_trades |-> winning_trades,
     losing_trades |-> losing_trades,
     win_rate |-> <<winning_trades, at_least_one(total_trades)>>,
     profit_factor |-> <<total_profit, at_least_one(total_loss)>>,
     total_profit |-> total_profit,
     total_loss |-> total_loss,
     net_profit |-> total_profit,
     daily_pnl |-> daily_pnl,
     drawdown |-> IF peak_balance > 0
                  THEN <<peak_balance - current_balance, peak_balance>>
                  ELSE <<0, 1>>,
     current_positions |-> Cardinality(DOMAIN active_positions)]

\* lines 464-482: the statistics dict; a quotient a / b is the pair
\* <<a, b>>, the drawdown 0 of a manager without a peak is <<0, 1>>
get_trade_statistics ==
    [total_trades |-> total_trades,
     winning_trades |-> winning_trades,
     losing_trades |-> losing_trades,
     win_rate |-> <<winning_trades, at_least_one(total_trades)>>,
     profit_factor |-> <<total_profit, at_least_one(total_loss)>>,
     total_profit |-> total_profit,
     total_loss |-> total_loss,
     net_profit |-> total_profit - total_loss,
     daily_pnl |-> daily_pnl,
     drawdown |-> IF peak_balance > 0
                  THEN <<peak_balance - current_balance, peak_balance>>
                  ELSE <<0, 1>>,
     current_positions |-> Cardinality(DOMAIN active_positions)]

----------------------------------------------------------------------------
(* GannCalculator (src/src/gann_calculator.py).                            *)
(*                                                                         *)
(* Numbers.  A price and a ring value are kept in hundredths (every ring   *)
(* is rounded to 2 decimals, and the prices asked about have 2 decimals).  *)
(* An increment is kept in sixteenths (0.125 is 2), a root value           *)
(* base +/- i * increment * base_mult in 128ths (base_mult 1.125 is 9/8).  *)
(* These floats are exact in the source as well, and round(x, 2) of an     *)
(* exact float rounds a tie to the even neighbour.  The axis names are     *)
(* written without the degree sign.                                        *)

angles == <<"0", "45", "90", "135", "180", "225", "270", "315">>

\* [0.125, 0.25, 0.5, 0.75, 1.0, 0.75, 0.5, 0.25]
default_increments == <<2, 4, 8, 12, 16, 12, 8, 4>>

default_params ==
    [increments |-> default_increments, num_values |-> 20,
     include_lower |-> TRUE]

\* 0.002
buffer_percentage == <<2, 1000>>

\* the nearest whole number to num / den, a tie to the even one
\* (num >= 0, den > 0)
RoundHalfEven(num, den) ==
    LET q == num \div den
        r == num % den
    IN  IF 2 * r > den \/ (2 * r = den /\ q % 2 = 1) THEN q + 1 ELSE q

\* round(val * val, 2), for val in 128ths
rounded_square(val) == RoundHalfEven(100 * val * val, 128 * 128)

\* math.floor(math.sqrt(price)), for a price in hundredths: b, b + 1, ...
RECURSIVE floor_sqrt_from(_, _)
floor_sqrt_from(b, p) ==
    IF 100 * (b + 1) * (b + 1) > p THEN b ELSE floor_sqrt_from(b + 1, p)

floor_sqrt(p) == floor_sqrt_from(0, p)

\* int(angle) % 90 == 0, for the k-th axis
is_cardinal(k) == (45 * (k - 1)) % 90 = 0

\* i * increment, or i * increment * base_mult on a diagonal axis
offset(i, increment, cardinal) ==
    i * increment * (IF cardinal THEN 8 ELSE 9)

\* the loop of lines 142-152 from i down to 1: each ring with a positive
\* root is inserted at the front of the list
RECURSIVE lower_rings(_, _, _, _, _)
lower_rings(i, base, increment, cardinal, rings) ==
    IF i = 0 THEN rings
    ELSE LET val == 128 * base - offset(i, increment, cardinal)
         IN  lower_rings(i - 1, base, increment, cardinal,
                         IF val > 0 THEN <<rounded_square(val)>> \o rings
                         ELSE rings)

\* the loop of lines 156-163 from i up to num_values: each ring is appended
RECURSIVE upper_rings(_, _, _, _, _)
upper_rings(i, base, increment, cardinal, rings) ==
    IF i > params.num_values THEN rings
    ELSE LET val == 128 * base + offset(i, increment, cardinal)
         IN  upper_rings(i + 1, base, increment, cardinal,
                         Append(rings, rounded_square(val)))

\* variant: the central value is left out of the list
axis_values_uncentred(k, base) ==
    LET increment == params.increments[k]
        cardinal == is_cardinal(k)
        lower == IF params.include_lower
                 THEN lower_rings(params.num_values \div 2, base, increment,
                                  cardinal, <<>>)
                 ELSE <<>>
    IN  upper_rings(1, base, increment, cardinal, lower)

\* gann_values[angle] for the k-th axis
axis_values(k, base) ==
    LET increment == params.increments[k]
        cardinal == is_cardinal(k)
        lower == IF params.include_lower
                 THEN lower_rings(params.num_values \div 2, base, increment,
                                  cardinal, <<>>)
                 ELSE <<>>
        central_value == 100 * base * base
    IN  upper_rings(1, base, increment, cardinal,
                    Append(lower, central_value))

AngleIndex(angle) == CHOOSE k \in DOMAIN angles : angles[k] = angle

Range(seq) == {seq[i] : i \in DOMAIN seq}

\* zip(angles, self.increments) ends with the shorter of the two, so an
\* axis without an increment gets no rings
_gann_square_of_9(p) ==
    LET base == floor_sqrt(p)
        zipped == {k \in DOMAIN angles : k <= Len(params.increments)}
    IN  [angle \in {angles[k] : k \in zipped} |->
            axis_values(AngleIndex(angle), base)]

Min(values) == CHOOSE v \in values : \A w \in values : v <= w

Max(values) == CHOOSE v \in values : \A w \in values : v >= w

\* variant: a ring at the price itself counts as above and as below
_find_buy_sell_levels_inclusive(p, gann_values) ==
    LET above == {value \in Range(gann_values["0"]) : value >= p}
        below == {value \in Range(gann_values["0"]) : value <= p}
        buy_above == IF above = {} THEN None ELSE <<"0", Min(above)>>
        sell_below == IF below = {} THEN None ELSE <<"0", Max(below)>>
    IN  <<buy_above, sell_below>>

_find_buy_sell_levels(p, gann_values) ==
    LET principal == IF "0" \in DOMAIN gann_values
                     THEN Range(gann_values["0"]) ELSE {}
        above == {value \in principal : value > p}
        below == {value \in principal : value < p}
        buy_above == IF above = {} THEN None ELSE <<"0", Min(above)>>
        sell_below == IF below = {} THEN None ELSE <<"0", Max(below)>>
    IN  <<buy_above, sell_below>>

\* lines 230-235, from the k-th axis on
RECURSIVE buy_targets_from(_, _, _, _, _)
buy_targets_from(k, entry_value, gann_values, buy_targets, used_values_buy) ==
    IF k > Len(angles) THEN buy_targets
    ELSE LET values_above ==
                 {v \in Range(gann_values[angles[k]]) :
                     v > entry_value /\ v \notin used_values_buy}
         IN  IF values_above # {}
             THEN buy_targets_from(
                      k + 1, entry_value, gann_values,
                      Append(buy_targets, <<angles[k], Min(values_above)>>),
                      used_values_buy \cup {Min(values_above)})
             ELSE buy_targets_from(k + 1, entry_value, gann_values,
                                   buy_targets, used_values_buy)

\* lines 244-249, from the k-th axis on
RECURSIVE sell_targets_from(_, _, _, _, _)
sell_targets_from(k, sell_below_value, gann_values, sell_targets, used_values_sell) ==
    IF k > Len(angles) THEN sell_targets
    ELSE LET values_below ==
                 {v \in Range(gann_values[angles[k]]) :
                     v < sell_below_value /\ v \notin used_values_sell}
         IN  IF values_below # {}
             THEN sell_targets_from(
                      k + 1, sell_below_value, gann_values,
                      Append(sell_targets, <<angles[k], Max(values_below)>>),
                      used_values_sell \cup {Max(values_below)})
             ELSE sell_targets_from(k + 1, sell_below_value, gann_values,
                                    sell_targets, used_values_sell)

\* x put behind every target that sorted() leaves in front of it: the
\* sort is stable, so behind the targets with the same price too
RECURSIVE insert_target(_, _, _)
insert_target(targets, x, reverse) ==
    IF targets = <<>> THEN <<x>>
    ELSE LET last == targets[Len(targets)]
             front == SubSeq(targets, 1, Len(targets) - 1)
         IN  IF (~reverse /\ last[2] <= x[2]) \/ (reverse /\ last[2] >= x[2])
             THEN Append(targets, x)
             ELSE Append(insert_target(front, x, reverse), last)

\* sorted(targets, key=lambda x: x[1], reverse=reverse)
RECURSIVE sorted_by_price(_, _)
sorted_by_price(targets, reverse) ==
    IF targets = <<>> THEN <<>>
    ELSE insert_target(
             sorted_by_price(SubSeq(targets, 1, Len(targets) - 1), reverse),
             targets[Len(targets)], reverse)

\* variant: the last num_levels targets are kept, targets[-num_levels:]
last_levels(targets, num_levels) ==
    SubSeq(targets, IF Len(targets) < num_levels THEN 1
                    ELSE Len(targets) - num_levels + 1, Len(targets))

\* targets[:num_levels]
first_levels(targets, num_levels) ==
    SubSeq(targets, 1, IF Len(targets) < num_levels THEN Len(targets)
                       ELSE num_levels)

\* variant: the central value seeds the sell targets without being
\* remembered as used
_get_unique_targets_from_angles_unseeded(entry_value, gann_values, num_levels, current_price, sell_below_value) ==
    LET buy_targets == buy_targets_from(1, entry_value, gann_values, <<>>, {})
        central_value == 100 * floor_sqrt(current_price) * floor_sqrt(current_price)
        seeded == central_value < sell_below_value[1]
        sell_targets ==
            IF sell_below_value = None THEN <<>>
            ELSE sell_targets_from(
                     1, sell_below_value[1], gann_values,
                     IF seeded THEN <<<<"0", central_value>>>> ELSE <<>>,
                     {})
    IN  <<first_levels(sorted_by_price(buy_targets, FALSE), num_levels),
          first_levels(sorted_by_price(sell_targets, TRUE), num_levels)>>

\* variant: the central value seeds the sell targets when it is the
\* sell_below level itself
_get_unique_targets_from_angles_seeded_at_level(entry_value, gann_values, num_levels, current_price, sell_below_value) ==
    LET buy_targets == buy_targets_from(1, entry_value, gann_values, <<>>, {})
        central_value == 100 * floor_sqrt(current_price) * floor_sqrt(current_price)
        seeded == central_value <= sell_below_value[1]
        sell_targets ==
            IF sell_below_value = None THEN <<>>
            ELSE sell_targets_from(
                     1, sell_below_value[1], gann_values,
                     IF seeded THEN <<<<"0", central_value>>>> ELSE <<>>,
                     IF seeded THEN {central_value} ELSE {})
    IN  <<first_levels(sorted_by_price(buy_targets, FALSE), num_levels),
          first_levels(sorted_by_price(sell_targets, TRUE), num_levels)>>

\* variant: the central value enters the sell targets under the label of
\* the first diagonal axis
_get_unique_targets_from_angles_seed_on_diagonal(entry_value, gann_values, num_levels, current_price, sell_below_value) ==
    LET buy_targets == buy_targets_from(1, entry_value, gann_values, <<>>, {})
        central_value == 100 * floor_sqrt(current_price) * floor_sqrt(current_price)
        seeded == central_value < sell_below_value[1]
        sell_targets ==
            IF sell_below_value = None THEN <<>>
            ELSE sell_targets_from(
                     1, sell_below_value[1], gann_values,
                     IF seeded THEN <<<<"45", central_value>>>> ELSE <<>>,
                     IF seeded THEN {central_value} ELSE {})
    IN  <<first_levels(sorted_by_price(buy_targets, FALSE), num_levels),
          first_levels(sorted_by_price(sell_targets, TRUE), num_levels)>>

_get_unique_targets_from_angles(entry_value, gann_values, num_levels, current_price, sell_below_value) ==
    LET buy_targets == buy_targets_from(1, entry_value, gann_values, <<>>, {})
        central_value == 100 * floor_sqrt(current_price) * floor_sqrt(current_price)
        seeded == central_value < sell_below_value[1]
        sell_targets ==
            IF sell_below_value = None THEN <<>>
            ELSE sell_targets_from(
                     1, sell_below_value[1], gann_values,
                     IF seeded THEN <<<<"0", central_value>>>> ELSE <<>>,
                     IF seeded THEN {central_value} ELSE {})
    IN  <<first_levels(sorted_by_price(buy_targets, FALSE), num_levels),
          first_levels(sorted_by_price(sell_targets, TRUE), num_levels)>>

\* variant: the buffer is added below the straddle and taken off above it
_calculate_stoploss_swapped(buy_above, sell_below, buffer) ==
    LET long_stoploss ==
            IF sell_below # None
            THEN RoundHalfEven(sell_below[2] * (buffer[2] + buffer[1]), buffer[2])
            ELSE None
        short_stoploss ==
            IF buy_above # None
            THEN RoundHalfEven(buy_above[2] * (buffer[2] - buffer[1]), buffer[2])
            ELSE None
    IN  <<long_stoploss, short_stoploss>>

\* round(level * (1 - buffer_percentage), 2) and
\* round(level * (1 + buffer_percentage), 2), of the exact product; the
\* float product differs from it only by its last bit, which can decide
\* the rounding when the exact product ends in half a hundredth (no
\* level of the prices up to MaxPriceCents does)
_calculate_stoploss(buy_above, sell_below, buffer) ==
    LET long_stoploss ==
            IF sell_below # None
            THEN RoundHalfEven(sell_below[2] * (buffer[2] - buffer[1]), buffer[2])
            ELSE None
        short_stoploss ==
            IF buy_above # None
            THEN RoundHalfEven(buy_above[2] * (buffer[2] + buffer[1]), buffer[2])
            ELSE None
    IN  <<long_stoploss, short_stoploss>>

\* [{"angle": angle, "price": price} for angle, price in targets]
formatted(targets) ==
    [i \in DOMAIN targets |-> [angle |-> targets[i][1], price |-> targets[i][2]]]

\* variant: no result only when both levels are missing, a single missing
\* level being reported as 0
calculate_either_level(p) ==
    IF p <= 0 THEN EmptyDict
    ELSE LET gann_values == _gann_square_of_9(p)
             levels == _find_buy_sell_levels(p, gann_values)
             buy_level == IF levels[1] = None THEN <<"0", 0>> ELSE levels[1]
             sell_level == IF levels[2] = None THEN <<"0", 0>> ELSE levels[2]
             targets == _get_unique_targets_from_angles(
                            buy_level[2], gann_values, 3, p, <<sell_level[2]>>)
             stoploss == _calculate_stoploss(buy_level, sell_level,
                                             buffer_percentage)
         IN  IF levels[1] = None /\ levels[2] = None THEN EmptyDict
             ELSE [input_price |-> p,
                   buy_above |-> buy_level[2],
                   sell_below |-> sell_level[2],
                   buy_targets |-> formatted(targets[1]),
                   sell_targets |-> formatted(targets[2]),
                   stoploss_long |-> stoploss[1],
                   stoploss_short |-> stoploss[2]]

\* lines 231 and 245: gann_values[angle] raises KeyError for an axis that
\* has no rings
lookup_raises(gann_values) ==
    \E k \in DOMAIN angles : angles[k] \notin DOMAIN gann_values

\* lines 70-108, the body of the try: what it returns, or the exception
\* that leaves it
calculate_body(p) ==
    LET gann_values == _gann_square_of_9(p)
        levels == _find_buy_sell_levels(p, gann_values)
        buy_level == levels[1]
        sell_level == levels[2]
        targets == _get_unique_targets_from_angles(
                       buy_level[2], gann_values, 3, p, <<sell_level[2]>>)
        stoploss == _calculate_stoploss(buy_level, sell_level,
                                        buffer_percentage)
    IN  IF buy_level = None \/ sell_level = None THEN EmptyDict
        ELSE IF lookup_raises(gann_values) THEN Raised("KeyError")
        ELSE [input_price |-> p,
              buy_above |-> buy_level[2],
              sell_below |-> sell_level[2],
              buy_targets |-> formatted(targets[1]),
              sell_targets |-> formatted(targets[2]),
              stoploss_long |-> stoploss[1],
              stoploss_short |-> stoploss[2]]

\* an outcome that is an exception
is_raise(outcome) == "outcome" \in DOMAIN outcome

\* variant: no except clause, the exception leaves calculate
calculate_uncaught(p) ==
    IF p <= 0 THEN EmptyDict ELSE calculate_body(p)

\* lines 65-67, and the except clause of lines 110-112
calculate(p) ==
    IF p <= 0 THEN EmptyDict
    ELSE LET outcome == calculate_body(p)
         IN  IF is_raise(outcome) THEN EmptyDict ELSE outcome

\* the observation of a calculator call, with its argument
GannCall(op, p, ret) == [op |-> op, price |-> p, ret |-> ret]

----------------------------------------------------------------------------
(* The objects after construction, and the calls a caller can make.        *)

ManagerInit ==
    /\ active_positions = <<>>
    /\ daily_pnl = 0
    /\ peak_balance = 0
    /\ current_balance = 0
    /\ total_trades = 0
    /\ winning_trades = 0
    /\ losing_trades = 0
    /\ total_profit = 0
    /\ total_loss = 0
    /\ call = Call("__init__", "", None)

\* the locals of a thread that is not in its loop body
NoSignal == [signal_data |-> None, quantity |-> 0, order_id |-> ""]
NoPass == [positions |-> EmptyDict, todo |-> <<>>, visited |-> <<>>,
           current_price |-> None, position |-> EmptyDict]
NoShutdown == [positions |-> EmptyDict, todo |-> <<>>]

\* no thread is inside a close_position call that is followed line by line
NoFrames == <<>>

\* RetryHandler.__init__ (live_trade_executor.py lines 20-36), with the
\* frame of execute beside the three attributes: where the call stands, its
\* locals attempts and last_exception, and what it has done so far, the
\* number of invocations of func, the exceptions func raised and the times
\* it slept
RetryHandler(max_attempts, delay, backoff_factor) ==
    [max_attempts |-> max_attempts, delay |-> delay,
     backoff_factor |-> backoff_factor,
     at |-> "idle", attempts |-> 0, last_exception |-> None,
     invocations |-> 0, failures |-> <<>>, slept |-> <<>>]

\* a RetryHandler with the defaults of its constructor that has executed
\* nothing
NoRetry == RetryHandler(3, 2, 2)

\* GannTradingBot.__init__ (trading_bot.py lines 101-110): not running, no
\* thread started, self.positions = {}
BotConstructed ==
    /\ running = FALSE
    /\ pc = [main |-> "constructed", signal |-> "stopped",
             monitor |-> "stopped"]
    /\ processing = NoSignal
    /\ monitoring = NoPass
    /\ closing = NoShutdown
    /\ validated = {}
    /\ positions = EmptyDict
    /\ frames = NoFrames

\* a bot that is constructed and never started stands by: no order was
\* sent to the broker, positions.json does not exist
BotInit ==
    /\ BotConstructed
    /\ trading_config = [close_positions_on_exit |-> FALSE]
    /\ gateway = [issued |-> 0, exits |-> <<>>]
    /\ positions_file = None
    /\ retry = NoRetry

Init ==
    /\ ManagerInit
    /\ max_positions \in MaxPositionsChoices
    /\ params = default_params
    /\ prev_close = 0
    /\ BotInit

CalculatePositionSize ==
    \E b \in Balances, l \in PriceLevels :
       calculate_position_size(b, l[1], l[2]) /\ UNCHANGED <<gann, bot>>

UpdateAccountMetrics ==
    \E b \in Balances : update_account_metrics(b) /\ UNCHANGED <<gann, bot>>

ResetDailyMetrics == reset_daily_metrics /\ UNCHANGED <<gann, bot>>

CanPlaceTrade ==
    \E sym \in Symbols, o \in ProposedOrders :
       CanPlaceTradeCall(sym, o[1], o[2], o[3], o[4], o[5]) /\ UNCHANGED <<gann, bot>>

RegisterPosition ==
    \E id \in OrderIds, sym \in Symbols, o \in RegisteredOrders :
       /\ register_position(id, sym, o[1], o[2], o[3], o[4], o[5])
       /\ UNCHANGED <<gann, bot>>

\* the caller registers only a trade that can_place_trade allows in the
\* manager's state at that moment
AdmittedRegisterPosition ==
    \E id \in OrderIds, sym \in Symbols, o \in RegisteredOrders :
       /\ can_place_trade(sym, o[1], o[2], o[3], o[4], o[5]) =
             Returned(TRUE, "Trade validated")
       /\ register_position(id, sym, o[1], o[2], o[3], o[4], o[5])
       /\ UNCHANGED <<gann, bot>>

UpdatePosition ==
    \E id \in OrderIds, p \in UpdatePrices :
       update_position(id, p) /\ UNCHANGED <<gann, bot>>

ClosePosition ==
    \E id \in OrderIds, p \in ExitPrices, r \in Reasons :
       /\ id \in DOMAIN active_positions => total_trades < MaxTrades
       /\ close_position(id, p, r)
       /\ UNCHANGED <<gann, bot>>

Next ==
    \/ CalculatePositionSize
    \/ UpdateAccountMetrics
    \/ ResetDailyMetrics
    \/ CanPlaceTrade
    \/ RegisterPosition
    \/ UpdatePosition
    \/ ClosePosition

Spec == Init /\ [][Next]_vars

NextAdmitted ==
    \/ CalculatePositionSize
    \/ UpdateAccountMetrics
    \/ ResetDailyMetrics
    \/ CanPlaceTrade
    \/ AdmittedRegisterPosition
    \/ UpdatePosition
    \/ ClosePosition

SpecAdmitted == Init /\ [][NextAdmitted]_vars

\* the orders whose positions the monitor watches:
\* <<action, quantity, entry price, stop loss, target price>>
MonitoredOrders ==
    {<<"BUY", 3, 100, 95, <<110>>>>,     \* long with a target
     <<"BUY", 3, 100, 95, <<>>>>,        \* long without a target
     <<"SELL", 3, 100, 105, <<90>>>>,    \* short with a target
     <<"SELL", 3, 100, 105, <<>>>>,      \* short without a target
     <<"BUY", 3, 100, 105, <<90>>>>,     \* long, stop above the target
     <<"SELL", 3, 100, 95, <<110>>>>}    \* short, stop below the target

\* the prices a tick can bring
TickPrices == {89, 90, 91, 94, 95, 96, 100, 104, 105, 106, 109, 110, 111}

MonitoredRegisterPosition ==
    \E id \in OrderIds, o \in MonitoredOrders :
       /\ register_position(id, "X", o[1], o[2], o[3], o[4], o[5])
       /\ UNCHANGED <<gann, bot>>

\* the monitor checks the position it got back from update_position: the
\* open position, or the empty dict when the id was closed in the meantime
CheckExitConditions ==
    \E id \in OrderIds, current_price \in TickPrices :
       LET position == IF id \in DOMAIN active_positions
                       THEN active_positions[id] ELSE EmptyDict
       IN  /\ call' = ExitCall(position, current_price,
                               check_exit_conditions(position, current_price))
           /\ UNCHANGED <<manager, gann, bot>>

NextMonitor ==
    \/ MonitoredRegisterPosition
    \/ CheckExitConditions

SpecMonitor == Init /\ [][NextMonitor]_vars

\* the balances and <<entry price, stop loss>> pairs positions are sized for
SizingBalances == {-1000, -250, 0, 50, 250, 1000, 1000000}
SizingLevels ==
    {<<0, 95>>, <<100, 0>>, <<100, 100>>, <<100, 97>>, <<100, 103>>,
     <<100, 95>>, <<1000, 950>>}

SizePosition ==
    \E b \in SizingBalances, l \in SizingLevels :
       calculate_position_size(b, l[1], l[2]) /\ UNCHANGED <<gann, bot>>

NextSizing == SizePosition

SpecSizing == Init /\ [][NextSizing]_vars

\* positions are sized while others are registered and closed: the
\* balances and <<entry price, stop loss>> pairs of these sizings
TradingBalances == {-250, 250, 1000}
TradingLevels == {<<0, 95>>, <<100, 0>>, <<100, 100>>, <<100, 95>>}

SizeAmongTrades ==
    \E b \in TradingBalances, l \in TradingLevels :
       calculate_position_size(b, l[1], l[2]) /\ UNCHANGED <<gann, bot>>

RegisterLong ==
    \E id \in OrderIds :
       /\ register_position(id, "X", "BUY", 3, 100, 95, <<110>>)
       /\ UNCHANGED <<gann, bot>>

NextSizingAmongTrades ==
    \/ SizeAmongTrades
    \/ RegisterLong
    \/ ClosePosition

SpecSizingAmongTrades == Init /\ [][NextSizingAmongTrades]_vars

\* the balances the account is reported with while statistics are read
StatisticsBalances == {0, 500, 1000}

StatisticsAccount ==
    \E b \in StatisticsBalances :
       update_account_metrics(b) /\ UNCHANGED <<gann, bot>>

GetTradeStatistics ==
    /\ call' = Call("get_trade_statistics", "", get_trade_statistics)
    /\ UNCHANGED <<manager, gann, bot>>

NextStatistics ==
    \/ StatisticsAccount
    \/ RegisterPosition
    \/ ClosePosition
    \/ GetTradeStatistics

SpecStatistics == Init /\ [][NextStatistics]_vars

\* the balances the account is reported with between the sizings
AccountBalances == {-250, 0, 250, 500, 1000}

AccountUpdated ==
    \E b \in AccountBalances :
       update_account_metrics(b) /\ UNCHANGED <<gann, bot>>

\* the balance moves, by sizings and by reports, while trades are proposed
\* and the statistics are read
NextAccount ==
    \/ SizeAmongTrades
    \/ AccountUpdated
    \/ CanPlaceTrade
    \/ GetTradeStatistics

SpecAccount == Init /\ [][NextAccount]_vars

(***************************************************************************)
(* The ledger: trades whose P&L is large beside the significand are        *)
(* closed, and the daily figure is reset, in any order.                    *)
(***************************************************************************)
LedgerQuantities == {500, 701}
LedgerPrices == {99, 101}

RegisterLarge ==
    \E id \in OrderIds, quantity \in LedgerQuantities :
       /\ register_position(id, "X", "BUY", quantity, 100, 95, <<110>>)
       /\ UNCHANGED <<gann, bot>>

CloseLarge ==
    \E id \in OrderIds, p \in LedgerPrices :
       /\ id \in DOMAIN active_positions => total_trades < MaxLedgerTrades
       /\ close_position(id, p, "manual")
       /\ UNCHANGED <<gann, bot>>

NextLedger ==
    \/ RegisterLarge
    \/ CloseLarge
    \/ ResetDailyMetrics

SpecLedger == Init /\ [][NextLedger]_vars

(***************************************************************************)
(* Marking to market and closing: positions of every direction the callers *)
(* register (equity BUY and SELL, option legs BUY_CE and BUY_PE) are       *)
(* updated and closed at the same prices.                                  *)
(***************************************************************************)
Directions == {"BUY", "SELL", "BUY_CE", "BUY_PE"}
MarkPrices == {90, 100, 110}

RegisterDirection ==
    \E id \in OrderIds, action \in Directions :
       /\ register_position(id, "X", action, 3, 100, 95, <<110>>)
       /\ UNCHANGED <<gann, bot>>

MarkPosition ==
    \E id \in OrderIds, p \in MarkPrices :
       update_position(id, p) /\ UNCHANGED <<gann, bot>>

CloseMarked ==
    \E id \in OrderIds, p \in MarkPrices :
       /\ id \in DOMAIN active_positions => total_trades < MaxTrades
       /\ close_position(id, p, "manual")
       /\ UNCHANGED <<gann, bot>>

NextMarked ==
    \/ RegisterDirection
    \/ MarkPosition
    \/ CloseMarked

SpecMarked == Init /\ [][NextMarked]_vars

\* the calculators constructed: the defaults, the defaults without the
\* rings below the centre, increments of 0.0625 on every axis, and the
\* defaults with 2 rings per axis
Configurations ==
    {default_params,
     [default_params EXCEPT !.include_lower = FALSE],
     [default_params EXCEPT !.increments = <<1, 1, 1, 1, 1, 1, 1, 1>>],
     [default_params EXCEPT !.num_values = 2]}

\* the prices asked about, in hundredths: none, a negative one, and every
\* price from 0.01 to MaxPriceCents / 100
Prices == {-100, 0} \cup (1 .. MaxPriceCents)

\* a manager with the default max_positions stands by
InitCalculator ==
    /\ ManagerInit
    /\ max_positions = 5
    /\ BotInit
    /\ params \in Configurations
    /\ prev_close \in Prices

\* calculate's call of _gann_square_of_9, made for a positive price only
GannSquareOf9 ==
    /\ prev_close > 0
    /\ call' = GannCall("_gann_square_of_9", prev_close,
                        _gann_square_of_9(prev_close))
    /\ UNCHANGED <<manager, gann, bot>>

\* variant: the call switches the calculator's lower rings off
Calculate_reconfigures ==
    /\ call' = GannCall("calculate", prev_close, calculate(prev_close))
    /\ params' = [params EXCEPT !.include_lower = FALSE]
    /\ UNCHANGED <<manager, prev_close, bot>>

Calculate ==
    /\ call' = GannCall("calculate", prev_close, calculate(prev_close))
    /\ UNCHANGED <<manager, gann, bot>>

NextCalculator ==
    \/ GannSquareOf9
    \/ Calculate

SpecCalculator == InitCalculator /\ [][NextCalculator]_vars

\* calculators with a list of increments shorter than the list of axes:
\* three increments, one, and none
ShortConfigurations ==
    {[default_params EXCEPT !.increments = <<2, 4, 8>>],
     [default_params EXCEPT !.increments = <<2>>],
     [default_params EXCEPT !.increments = <<>>]}

InitConfigured ==
    /\ ManagerInit
    /\ max_positions = 5
    /\ BotInit
    /\ params \in Configurations \cup ShortConfigurations
    /\ prev_close \in Prices

SpecConfigured == InitConfigured /\ [][NextCalculator]_vars

\* the closes of the previous candle that one calculator is asked about
\* over time, in hundredths
CandlePrices == {-100, 1, 100, 130, 255, 400}

InitCandles ==
    /\ ManagerInit
    /\ max_positions = 5
    /\ BotInit
    /\ params \in Configurations
    /\ prev_close \in CandlePrices

\* the next cycle brings another previous candle
NewCandle ==
    /\ prev_close' \in CandlePrices
    /\ UNCHANGED <<manager, call, params, bot>>

NextCandles ==
    \/ NewCandle
    \/ Calculate

SpecCandles == InitCandles /\ [][NextCandles]_vars

----------------------------------------------------------------------------
(* The orchestrator: src/src/trading_bot.py, class GannTradingBot.         *)
(*                                                                         *)
(* start() runs three threads over one RiskManager: the signal processor   *)
(* (_process_signals), the position monitor (_monitor_positions_thread)    *)
(* and the main thread, which ends in stop().  No lock is taken anywhere,  *)
(* so a thread can be pre-empted inside a method of the manager.  A call   *)
(* that writes to the manager is therefore two steps: the step that        *)
(* brings the thread into the method (pc names the method), and the step   *)
(* that makes the method's writes and returns.                             *)
(***************************************************************************)

\* the order ids the broker issues, in this order, each one once
GatewayIds == <<"A", "B">>

\* what get_funds() reports
FundsBalances == {1000}

\* what data_handler.get_current_price brings: a price, or None
FeedPrices == {None, <<90>>, <<100>>}

\* the signal_data records _process_symbol has queued: an equity gives
\* BUY_EQUITY_CE or BUY_PE, an index BUY_CE (_check_for_signal)
Signals ==
    {[symbol |-> "X", type |-> "BUY_EQUITY_CE", current_price |-> 100,
      stop_loss |-> 95, target |-> <<110>>, option_lot_size |-> 1],
     [symbol |-> "Y", type |-> "BUY_CE", current_price |-> 100,
      stop_loss |-> 95, target |-> <<110>>, option_lot_size |-> 1],
     [symbol |-> "X", type |-> "BUY_PE", current_price |-> 100,
      stop_loss |-> 105, target |-> <<90>>, option_lot_size |-> 1]}

\* f"{symbol}-CE", f"{symbol}-PE"
OptionSymbol(symbol, option_type) == symbol \o "-" \o option_type

\* symbol.split('-')[0]
symbol_base(symbol) ==
    CHOOSE b \in Symbols :
        symbol \in {b, OptionSymbol(b, "CE"), OptionSymbol(b, "PE")}

\* the ids of a dict in the order a loop over it takes them: the order of
\* insertion, which is the order in which the broker issued them
KeysInOrder(d) ==
    SelectSeq(GatewayIds, LAMBDA id : id \in DOMAIN d)

\* variant: the positions are not handed out at all
get_active_positions_none == EmptyDict

\* return self.active_positions.copy()
get_active_positions == active_positions

\* the trade a can_place_trade call was asked about
Trade(symbol, quantity, entry_price, stop_loss, target_price) ==
    [symbol |-> symbol, quantity |-> quantity, entry_price |-> entry_price,
     stop_loss |-> stop_loss, target_price |-> target_price]

At(thread, where) == pc[thread] = where

Goto(thread, where) == pc' = [pc EXCEPT ![thread] = where]

\* what a step of one thread leaves alone outside the manager and the
\* thread's own locals
bot_fixed == <<running, trading_config, positions_file, positions, frames,
               retry>>

(* _process_signals, lines 486-681.                                        *)

\* the quantity validated and ordered for the signal: the computed size
\* for BUY_EQUITY_CE, the option lot otherwise
signal_quantity ==
    IF processing.signal_data.type = "BUY_EQUITY_CE"
    THEN processing.quantity
    ELSE processing.signal_data.option_lot_size

\* the symbol and the action the first leg is registered with
first_leg_symbol ==
    LET signal == processing.signal_data
    IN  IF signal.type = "BUY_EQUITY_CE" THEN signal.symbol
        ELSE IF signal.type = "BUY_CE" THEN OptionSymbol(signal.symbol, "CE")
        ELSE OptionSymbol(signal.symbol, "PE")

first_leg_action ==
    LET signal == processing.signal_data
    IN  IF signal.type = "BUY_EQUITY_CE" THEN "BUY" ELSE signal.type

\* while self.running: signal_queue.get(timeout=1); a signal of type
\* BUY_EQUITY_CE goes into calculate_position_size, the others to the
\* validation
GetSignal ==
    /\ At("signal", "get")
    /\ running
    /\ \E signal_data \in Signals :
          /\ processing' = [NoSignal EXCEPT !.signal_data = signal_data]
          /\ Goto("signal", IF signal_data.type = "BUY_EQUITY_CE"
                            THEN "calculate_position_size"
                            ELSE "can_place_trade")
    /\ UNCHANGED <<manager, call, gann, bot_fixed, monitoring, closing,
                   gateway, validated>>

\* the loop ends when self.running is found False
SignalProcessorStops ==
    /\ At("signal", "get")
    /\ ~running
    /\ Goto("signal", "stopped")
    /\ UNCHANGED <<manager, call, gann, bot_fixed, processing, monitoring,
                   closing, gateway, validated>>

\* lines 511-519: calculate_position_size returns; a size <= 0 ends the
\* signal
SignalSized ==
    /\ At("signal", "calculate_position_size")
    /\ \E account_balance \in FundsBalances :
          calculate_position_size(account_balance,
                                  processing.signal_data.current_price,
                                  processing.signal_data.stop_loss)
    /\ processing' = [processing EXCEPT !.quantity = call'.ret]
    /\ Goto("signal", IF call'.ret <= 0 THEN "get" ELSE "can_place_trade")
    /\ UNCHANGED <<gann, bot_fixed, monitoring, closing, gateway, validated>>

\* lines 521-533, 595-608, 640-652: can_place_trade for the symbol, with
\* the action 'BUY'; anything but an allowance ends the signal (an
\* exception is caught by the loop)
SignalValidated ==
    /\ At("signal", "can_place_trade")
    /\ LET signal == processing.signal_data
           target == signal.target
       IN  /\ CanPlaceTradeCall(signal.symbol, "BUY", signal_quantity,
                                signal.current_price, signal.stop_loss,
                                target)
           /\ IF call'.ret = Returned(TRUE, "Trade validated")
              THEN /\ validated' = validated \cup
                         {Trade(signal.symbol, signal_quantity,
                                signal.current_price, signal.stop_loss,
                                target)}
                   /\ Goto("signal", "place_order")
              ELSE /\ validated' = validated
                   /\ Goto("signal", "get")
    /\ processing' = [processing EXCEPT !.quantity = signal_quantity]
    /\ UNCHANGED <<gann, bot_fixed, monitoring, closing, gateway>>

\* the broker answers an entry order: an error, or success with the next
\* order id
OrderPlaced(thread, registering) ==
    /\ gateway.issued < Len(GatewayIds)
    /\ gateway' = [gateway EXCEPT !.issued = @ + 1]
    /\ processing' = [processing EXCEPT
                         !.order_id = GatewayIds[gateway.issued + 1]]
    /\ Goto(thread, registering)

OrderFailed(thread) ==
    /\ UNCHANGED <<gateway, processing>>
    /\ Goto(thread, "get")

\* lines 539-548, 611-618, 655-662: place_order for the equity,
\* _place_option_order for BUY_CE and BUY_PE
SignalPlacesOrder ==
    /\ At("signal", "place_order")
    /\ \/ OrderPlaced("signal", "register_position")
       \/ OrderFailed("signal")
    /\ UNCHANGED <<manager, call, gann, bot_fixed, monitoring, closing,
                   validated>>

\* lines 552-561, 623-631, 667-675: register_position returns
SignalRegistered ==
    /\ At("signal", "register_position")
    /\ LET signal == processing.signal_data
       IN  /\ register_position(processing.order_id, first_leg_symbol,
                                first_leg_action, processing.quantity,
                                signal.current_price, signal.stop_loss,
                                signal.target)
           /\ Goto("signal", IF signal.type = "BUY_EQUITY_CE"
                             THEN "place_option_order" ELSE "get")
    /\ UNCHANGED <<gann, bot_fixed, processing, monitoring, closing, gateway,
                   validated>>

\* lines 563-570: the CE order that follows the equity order
SignalPlacesOptionOrder ==
    /\ At("signal", "place_option_order")
    /\ \/ OrderPlaced("signal", "register_option_position")
       \/ OrderFailed("signal")
    /\ UNCHANGED <<manager, call, gann, bot_fixed, monitoring, closing,
                   validated>>

\* lines 575-584: the CE leg is registered with the action 'BUY' and the
\* option lot
SignalRegisteredOption ==
    /\ At("signal", "register_option_position")
    /\ LET signal == processing.signal_data
       IN  register_position(processing.order_id,
                             OptionSymbol(signal.symbol, "CE"), "BUY",
                             signal.option_lot_size, signal.current_price,
                             signal.stop_loss, signal.target)
    /\ Goto("signal", "get")
    /\ UNCHANGED <<gann, bot_fixed, processing, monitoring, closing, gateway,
                   validated>>

(* _monitor_positions_thread, lines 787-855.                               *)

\* the position the pass is at
monitored_id == Head(monitoring.todo)

\* the loop over positions.items() moves on: the id is done, and the pass
\* ends (time.sleep) with the last one
NextPosition ==
    /\ monitoring' = [monitoring EXCEPT
                         !.todo = Tail(@),
                         !.visited = Append(@, monitored_id),
                         !.current_price = None,
                         !.position = EmptyDict]
    /\ Goto("monitor", IF Tail(monitoring.todo) = <<>>
                       THEN "pass" ELSE "get_current_price")

\* while self.running: positions = get_active_positions()
MonitorStartsPass ==
    /\ At("monitor", "pass")
    /\ running
    /\ monitoring' = [NoPass EXCEPT
                         !.positions = get_active_positions,
                         !.todo = KeysInOrder(get_active_positions)]
    /\ Goto("monitor", IF get_active_positions = EmptyDict
                       THEN "pass" ELSE "get_current_price")
    /\ UNCHANGED <<manager, call, gann, bot_fixed, processing, closing,
                   gateway, validated>>

MonitorStops ==
    /\ At("monitor", "pass")
    /\ ~running
    /\ Goto("monitor", "stopped")
    /\ UNCHANGED <<manager, call, gann, bot_fixed, processing, monitoring,
                   closing, gateway, validated>>

\* lines 797-810: the price of the underlying; without a price the
\* position is left as it is
MonitorGetsPrice ==
    /\ At("monitor", "get_current_price")
    /\ symbol_base(monitoring.positions[monitored_id].symbol) \in Symbols
    /\ \E current_price \in FeedPrices :
          IF current_price = None
          THEN NextPosition
          ELSE /\ monitoring' = [monitoring EXCEPT
                                    !.current_price = current_price]
               /\ Goto("monitor", "update_position")
    /\ UNCHANGED <<manager, call, gann, bot_fixed, processing, closing,
                   gateway, validated>>

\* line 812: update_position returns the position, or {} when the id is
\* no longer open
MonitorUpdated ==
    /\ At("monitor", "update_position")
    /\ update_position(monitored_id, monitoring.current_price[1])
    /\ monitoring' = [monitoring EXCEPT !.position = call'.ret]
    /\ Goto("monitor", "check_exit_conditions")
    /\ UNCHANGED <<gann, bot_fixed, processing, closing, gateway, validated>>

\* lines 815-817: check_exit_conditions decides whether the position is
\* closed
MonitorChecked ==
    /\ At("monitor", "check_exit_conditions")
    /\ LET ret == check_exit_conditions(monitoring.position,
                                        monitoring.current_price[1])
       IN  /\ call' = ExitCall(monitoring.position,
                               monitoring.current_price[1], ret)
           /\ IF ret[1]
              THEN /\ Goto("monitor", "close_position")
                   /\ UNCHANGED monitoring
              ELSE NextPosition
    /\ UNCHANGED <<manager, gann, bot_fixed, processing, closing, gateway,
                   validated>>

\* lines 820-822: close_position returns; the exit order follows a close
\* that found the position
MonitorClosed ==
    /\ At("monitor", "close_position")
    /\ close_position(monitored_id, monitoring.current_price[1],
                      check_exit_conditions(monitoring.position,
                                            monitoring.current_price[1])[2])
    /\ IF call'.ret # EmptyDict
       THEN /\ Goto("monitor", "place_order")
            /\ UNCHANGED monitoring
       ELSE NextPosition
    /\ UNCHANGED <<gann, bot_fixed, processing, closing, gateway, validated>>

\* lines 834-845: the SELL order for the closed position; its result is
\* logged
MonitorPlacesExitOrder ==
    /\ At("monitor", "place_order")
    /\ \E status \in {"success", "error"} :
          gateway' = [gateway EXCEPT !.exits =
              [id \in DOMAIN @ \cup {monitored_id} |->
                  IF id = monitored_id THEN status ELSE @[id]]]
    /\ NextPosition
    /\ UNCHANGED <<manager, call, gann, bot_fixed, processing, closing,
                   validated>>

(* The main thread: start (183-237), stop (239-262),                       *)
(* _close_all_positions (857-877), _save_positions (879-894).              *)

\* json.dump followed by json.load: the ids are strings and stay strings,
\* a number, a string and None come back as they were written
json_round_trip(d) == [id \in DOMAIN d |-> d[id]]

\* start: the two threads are started, and positions.json is read into
\* self.positions, or created with {} when it does not exist
Start ==
    /\ At("main", "constructed")
    /\ running' = TRUE
    /\ pc' = [main |-> "loop", signal |-> "get", monitor |-> "pass"]
    /\ IF positions_file # None
       THEN /\ positions' = json_round_trip(positions_file[1])
            /\ UNCHANGED positions_file
       ELSE /\ positions_file' = <<EmptyDict>>
            /\ UNCHANGED positions
    /\ UNCHANGED <<manager, call, gann, trading_config, processing,
                   monitoring, closing, gateway, validated, frames, retry>>

\* stop, reached from the finally of start: self.running = False, then
\* _close_all_positions if configured, then _save_positions
Stop ==
    /\ At("main", "loop")
    /\ running' = FALSE
    /\ Goto("main", IF trading_config.close_positions_on_exit
                    THEN "close_all_positions" ELSE "save_positions")
    /\ UNCHANGED <<manager, call, gann, trading_config, processing,
                   monitoring, closing, gateway, validated, positions_file,
                   positions, frames, retry>>

\* lines 868-875: the broker is told to close everything (the result is
\* logged), then the loop over get_active_positions() starts
CloseAllPositions ==
    /\ At("main", "close_all_positions")
    /\ closing' = [positions |-> get_active_positions,
                   todo |-> KeysInOrder(get_active_positions)]
    /\ Goto("main", IF get_active_positions = EmptyDict
                    THEN "save_positions" ELSE "close_position")
    /\ UNCHANGED <<manager, call, gann, bot_fixed, processing, monitoring,
                   gateway, validated>>

\* lines 875-877: close_position returns for the next position of the
\* loop.  The copy is shallow: the position dict of the snapshot is the
\* one the manager updates, so current_price is the price of the last
\* update (of an id that is gone the price is of no effect)
ShutdownClosed ==
    /\ At("main", "close_position")
    /\ LET order_id == Head(closing.todo)
           position == IF order_id \in DOMAIN active_positions
                       THEN active_positions[order_id]
                       ELSE closing.positions[order_id]
       IN  close_position(order_id, position.current_price,
                          "System shutdown")
    /\ closing' = [closing EXCEPT !.todo = Tail(@)]
    /\ Goto("main", IF Tail(closing.todo) = <<>>
                    THEN "save_positions" ELSE "close_position")
    /\ UNCHANGED <<gann, bot_fixed, processing, monitoring, gateway,
                   validated>>

\* _save_positions writes get_active_positions() to positions.json; the
\* joins that follow wait 5 seconds at most, and start returns
SavePositions ==
    /\ At("main", "save_positions")
    /\ positions_file' = <<get_active_positions>>
    /\ Goto("main", "exited")
    /\ UNCHANGED <<manager, call, gann, running, trading_config, positions,
                   processing, monitoring, closing, gateway, validated,
                   frames, retry>>

\* the process has ended (its daemon threads with it) and the next one
\* constructs its bot: a new RiskManager, self.positions = {}
GannTradingBot ==
    /\ At("main", "exited")
    /\ active_positions' = <<>>
    /\ daily_pnl' = 0
    /\ peak_balance' = 0
    /\ current_balance' = 0
    /\ total_trades' = 0
    /\ winning_trades' = 0
    /\ losing_trades' = 0
    /\ total_profit' = 0
    /\ total_loss' = 0
    /\ call' = Call("__init__", "", None)
    /\ running' = FALSE
    /\ pc' = [main |-> "constructed", signal |-> "stopped",
              monitor |-> "stopped"]
    /\ processing' = NoSignal
    /\ monitoring' = NoPass
    /\ closing' = NoShutdown
    /\ validated' = {}
    /\ positions' = EmptyDict
    /\ UNCHANGED <<max_positions, gann, trading_config, gateway,
                   positions_file, frames, retry>>

\* a bot is constructed with either setting of close_positions_on_exit;
\* positions.json does not exist before the first run
InitBot ==
    /\ ManagerInit
    /\ max_positions = 5
    /\ params = default_params
    /\ prev_close = 0
    /\ BotConstructed
    /\ trading_config \in [close_positions_on_exit : BOOLEAN]
    /\ gateway = [issued |-> 0, exits |-> <<>>]
    /\ positions_file = None
    /\ retry = NoRetry

NextBot ==
    \/ Start
    \/ GetSignal
    \/ SignalProcessorStops
    \/ SignalSized
    \/ SignalValidated
    \/ SignalPlacesOrder
    \/ SignalRegistered
    \/ SignalPlacesOptionOrder
    \/ SignalRegisteredOption
    \/ MonitorStartsPass
    \/ MonitorStops
    \/ MonitorGetsPrice
    \/ MonitorUpdated
    \/ MonitorChecked
    \/ MonitorClosed
    \/ MonitorPlacesExitOrder
    \/ Stop
    \/ CloseAllPositions
    \/ ShutdownClosed
    \/ SavePositions
    \/ GannTradingBot

SpecBot == InitBot /\ [][NextBot]_vars

----------------------------------------------------------------------------
(* close_position, statement by statement (risk_manager.py 332-369), for   *)
(* the monitor thread and the shutdown path closing the same position.     *)
(* No lock is held, so the threads can change over between any two         *)
(* statements, and an augmented assignment self.x += v is a read of        *)
(* self.x followed by a write.                                             *)
(***************************************************************************)

\* the threads that close positions
Closers == {"monitor", "main"}

\* lines 351-360: the augmented assignments of one closed trade, in order:
\* <<attribute, amount added>>
statistics_of(realized_pnl) ==
    IF realized_pnl > 0
    THEN <<<<"total_trades", 1>>, <<"daily_pnl", realized_pnl>>,
           <<"winning_trades", 1>>, <<"total_profit", realized_pnl>>>>
    ELSE <<<<"total_trades", 1>>, <<"daily_pnl", realized_pnl>>,
           <<"losing_trades", 1>>, <<"total_loss", -realized_pnl>>>>

\* self.<attribute>
attribute_value(attribute) ==
    CASE attribute = "total_trades" -> total_trades
      [] attribute = "daily_pnl" -> daily_pnl
      [] attribute = "winning_trades" -> winning_trades
      [] attribute = "total_profit" -> total_profit
      [] attribute = "losing_trades" -> losing_trades
      [] attribute = "total_loss" -> total_loss

\* self.<attribute> = value
attribute_write(attribute, value) ==
    /\ total_trades' =
           IF attribute = "total_trades" THEN value ELSE total_trades
    /\ daily_pnl' = IF attribute = "daily_pnl" THEN value ELSE daily_pnl
    /\ winning_trades' =
           IF attribute = "winning_trades" THEN value ELSE winning_trades
    /\ total_profit' =
           IF attribute = "total_profit" THEN value ELSE total_profit
    /\ losing_trades' =
           IF attribute = "losing_trades" THEN value ELSE losing_trades
    /\ total_loss' = IF attribute = "total_loss" THEN value ELSE total_loss
    /\ UNCHANGED <<active_positions, peak_balance, current_balance,
                   max_positions>>

\* the frame of a close_position call that has just been entered
Entered(position_id, exit_price, reason) ==
    [at |-> "test", position_id |-> position_id, exit_price |-> exit_price,
     reason |-> reason, position |-> EmptyDict, statement |-> 0, read |-> 0,
     ret |-> None]

\* the call of the thread goes on at another statement
FrameAt(thread, at) == frames' = [frames EXCEPT ![thread].at = at]

\* the call of the thread ends: it returns ret, or it raises
FrameEnds(thread, ret) ==
    /\ frames' = [frames EXCEPT ![thread].at = "done", ![thread].ret = ret]
    /\ call' = Call("close_position", frames[thread].position_id, ret)

race_fixed == <<gann, running, trading_config, pc, processing, monitoring,
                closing, gateway, validated, positions_file, positions,
                retry>>

\* line 332: if position_id not in self.active_positions: return {}
CloseTests ==
    \E thread \in Closers :
       /\ frames[thread].at = "test"
       /\ IF frames[thread].position_id \notin DOMAIN active_positions
          THEN FrameEnds(thread, EmptyDict)
          ELSE FrameAt(thread, "copy") /\ UNCHANGED call
       /\ UNCHANGED <<manager, race_fixed>>

\* lines 336-348: position = self.active_positions[position_id].copy(),
\* a KeyError when the id has gone since the test; then the fields of the
\* closed position
CloseCopies ==
    \E thread \in Closers :
       LET frame == frames[thread]
       IN  /\ frame.at = "copy"
           /\ IF frame.position_id \notin DOMAIN active_positions
              THEN FrameEnds(thread, Raised("KeyError"))
              ELSE /\ frames' = [frames EXCEPT
                          ![thread].at = "read",
                          ![thread].statement = 1,
                          ![thread].position =
                              closed_position(
                                  active_positions[frame.position_id],
                                  frame.exit_price, frame.reason)]
                   /\ UNCHANGED call
           /\ UNCHANGED <<manager, race_fixed>>

\* lines 351-360, the read of self.x in self.x += v
CloseReads ==
    \E thread \in Closers :
       LET frame == frames[thread]
           statement == statistics_of(frame.position.realized_pnl)
                            [frame.statement]
       IN  /\ frame.at = "read"
           /\ frames' = [frames EXCEPT
                            ![thread].at = "write",
                            ![thread].read = attribute_value(statement[1])]
           /\ UNCHANGED <<manager, call, race_fixed>>

\* lines 351-360, the write of self.x in self.x += v
CloseWrites ==
    \E thread \in Closers :
       LET frame == frames[thread]
           statement == statistics_of(frame.position.realized_pnl)
                            [frame.statement]
       IN  /\ frame.at = "write"
           /\ attribute_write(statement[1],
                  IF statement[1] \in {"total_trades", "winning_trades",
                                       "losing_trades"}
                  THEN frame.read + statement[2]
                  ELSE float_sum(frame.read, statement[2]))
           /\ frames' = [frames EXCEPT
                            ![thread].at = IF frame.statement = 4
                                           THEN "del" ELSE "read",
                            ![thread].statement = frame.statement + 1]
           /\ UNCHANGED <<call, race_fixed>>

\* lines 363-369: del self.active_positions[position_id], a KeyError when
\* the id has gone; then return position
CloseDeletes ==
    \E thread \in Closers :
       LET frame == frames[thread]
       IN  /\ frame.at = "del"
           /\ IF frame.position_id \notin DOMAIN active_positions
              THEN /\ FrameEnds(thread, Raised("KeyError"))
                   /\ UNCHANGED manager
              ELSE /\ FrameEnds(thread, frame.position)
                   /\ remove_position(frame.position_id)
                   /\ UNCHANGED <<counters, max_positions>>
           /\ UNCHANGED race_fixed

\* the prices the two threads close at
RacePrices == {90, 100, 110}

\* the position both threads have in their snapshots, after the monitor's
\* update_position at the price it saw
raced_position(current_price) ==
    LET position == new_position("A", "X", "BUY", 2, 100, 95, <<110>>)
    IN  [position EXCEPT
            !.current_price = current_price,
            !.unrealized_pnl = directional_pnl(position, current_price)]

\* stop() has reached _close_all_positions while the monitor's pass is
\* about to close the same position: both threads have entered
\* close_position for it.  The monitor closes at a price that met the
\* stop loss or the target, the shutdown at the price it has for the
\* position
InitRace ==
    \E monitor_price \in RacePrices \ {100}, shutdown_price \in RacePrices :
       LET position == raced_position(monitor_price)
           snapshot == [id \in {"A"} |-> position]
           exit_check == check_exit_conditions(position, monitor_price)
       IN  /\ active_positions = snapshot
           /\ daily_pnl = 0
           /\ peak_balance = 1000
           /\ current_balance = 1000
           /\ total_trades = 0
           /\ winning_trades = 0
           /\ losing_trades = 0
           /\ total_profit = 0
           /\ total_loss = 0
           /\ max_positions = 5
           /\ call = ExitCall(position, monitor_price, exit_check)
           /\ params = default_params
           /\ prev_close = 0
           /\ running = FALSE
           /\ trading_config = [close_positions_on_exit |-> TRUE]
           /\ pc = [main |-> "close_position", signal |-> "get",
                    monitor |-> "close_position"]
           /\ processing = [NoSignal EXCEPT !.quantity = 2, !.order_id = "A"]
           /\ monitoring = [positions |-> snapshot, todo |-> <<"A">>,
                            visited |-> <<>>,
                            current_price |-> <<monitor_price>>,
                            position |-> position]
           /\ closing = [positions |-> snapshot, todo |-> <<"A">>]
           /\ gateway = [issued |-> 1, exits |-> <<>>]
           /\ validated = {Trade("X", 2, 100, 95, <<110>>)}
           /\ positions_file = <<EmptyDict>>
           /\ positions = EmptyDict
           /\ retry = NoRetry
           /\ frames = [thread \in Closers |->
                  IF thread = "monitor"
                  THEN Entered("A", monitor_price, exit_check[2])
                  ELSE Entered("A", shutdown_price, "System shutdown")]

NextRace ==
    \/ CloseTests
    \/ CloseCopies
    \/ CloseReads
    \/ CloseWrites
    \/ CloseDeletes

SpecRace == InitRace /\ [][NextRace]_vars

----------------------------------------------------------------------------
(* RetryHandler.execute (src/src/live_trade_executor.py lines 39-78), one   *)
(* statement a step.  func is the caller's: each invocation returns or      *)
(* raises an exception of its choice.  The delays are whole seconds, not    *)
(* negative (time.sleep refuses a negative time).                           *)
(***************************************************************************)
MaxAttempts == 3
Delays == {0, 2}
BackoffFactors == {1, 2, 3}
Exceptions == {"ConnectionError", "Timeout"}

\* b ** n
RECURSIVE Power(_, _)
Power(b, n) == IF n = 0 THEN 1 ELSE b * Power(b, n - 1)

\* variant: the exponent is the number of failures
wait_time_next_power(attempts) ==
    retry.delay * Power(retry.backoff_factor, attempts)

\* line 71: self.delay * (self.backoff_factor ** (attempts - 1))
wait_time(attempts) ==
    retry.delay * Power(retry.backoff_factor, attempts - 1)

retry_fixed ==
    <<manager, gann, running, trading_config, pc, processing, monitoring,
      closing, gateway, validated, positions_file, positions, frames>>

\* lines 60-61: attempts = 0, last_exception = None
Execute ==
    /\ retry.at = "idle"
    /\ retry' = [retry EXCEPT !.at = "while"]
    /\ UNCHANGED <<call, retry_fixed>>

\* line 63: while attempts < self.max_attempts, and line 78 behind the
\* loop: raise last_exception
WhileTest ==
    /\ retry.at = "while"
    /\ IF retry.attempts < retry.max_attempts
       THEN /\ retry' = [retry EXCEPT !.at = "func"]
            /\ UNCHANGED call
       ELSE /\ retry' = [retry EXCEPT !.at = "raised"]
            /\ call' = Call("execute", "", Raised(retry.last_exception[1]))
    /\ UNCHANGED retry_fixed

\* line 65: return func(*args, **kwargs), func returning
FuncReturns ==
    /\ retry.at = "func"
    /\ retry' = [retry EXCEPT !.at = "returned",
                              !.invocations = @ + 1]
    /\ call' = Call("execute", "", "result")
    /\ UNCHANGED retry_fixed

\* lines 65-75: func raising e; attempts += 1, last_exception = e, and
\* the sleep is ahead only if another attempt is
FuncRaises ==
    /\ retry.at = "func"
    /\ \E e \in Exceptions :
          retry' = [retry EXCEPT
                       !.invocations = @ + 1,
                       !.failures = Append(@, e),
                       !.attempts = @ + 1,
                       !.last_exception = <<e>>,
                       !.at = IF retry.attempts + 1 < retry.max_attempts
                              THEN "sleep" ELSE "while"]
    /\ UNCHANGED <<call, retry_fixed>>

\* lines 71-73: time.sleep(wait_time)
Sleeps ==
    /\ retry.at = "sleep"
    /\ retry' = [retry EXCEPT !.slept = Append(@, wait_time(retry.attempts)),
                              !.at = "while"]
    /\ UNCHANGED <<call, retry_fixed>>

InitRetry ==
    /\ ManagerInit
    /\ max_positions = 5
    /\ params = default_params
    /\ prev_close = 100
    /\ BotConstructed
    /\ trading_config = [close_positions_on_exit |-> FALSE]
    /\ gateway = [issued |-> 0, exits |-> <<>>]
    /\ positions_file = None
    /\ \E max_attempts \in 1 .. MaxAttempts, delay \in Delays,
          backoff_factor \in BackoffFactors :
          retry = RetryHandler(max_attempts, delay, backoff_factor)

NextRetry ==
    \/ Execute
    \/ WhileTest
    \/ FuncReturns
    \/ FuncRaises
    \/ Sleeps

\* one thread runs execute, and func and time.sleep return: a statement
\* that can run does
SpecRetry == InitRetry /\ [][NextRetry]_vars /\ WF_vars(NextRetry)

----------------------------------------------------------------------------
(* The properties.  Long is the action BUY, Short the action SELL.         *)

NumOpen == Cardinality(DOMAIN active_positions)

SuccessfulClose(c) == c.op = "close_position" /\ c.ret # EmptyDict

Abs(x) == IF x < 0 THEN -x ELSE x

\* C1: in every reachable state of the manager, whatever register, update
\* and close calls were made, total_trades = winning_trades + losing_trades.
C1_TradesConserved ==
    total_trades = winning_trades + losing_trades

\* a won and a tied trade have both been recorded
C1_Witness ==
    /\ total_trades = 2
    /\ winning_trades = 1
    /\ losing_trades = 1
    /\ total_loss = 0

\* C2 as claimed: once close_position has succeeded for an id, no further
\* call (register, update or close, with any id) puts that id back into
\* active_positions.
C2_ClosedNeverReturns ==
    [][SuccessfulClose(call) => call.id \notin DOMAIN active_positions']_vars

\* C2 as amended: a successful close_position leaves its id absent from
\* active_positions, an absent id becomes present only by a
\* register_position call made with that same id, and every entry of
\* active_positions has status open.
C2_ClosedAbsentUntilRegistered ==
    /\ [](\A id \in DOMAIN active_positions :
             active_positions[id].status = "open")
    /\ [](SuccessfulClose(call) => call.id \notin DOMAIN active_positions)
    /\ [][\A id \in OrderIds :
             (id \notin DOMAIN active_positions
              /\ id \in DOMAIN active_positions')
             => (call'.op = "register_position" /\ call'.id = id)]_vars

\* a position was closed and is gone while another one is still open
C2_Witness ==
    /\ SuccessfulClose(call)
    /\ call.id \notin DOMAIN active_positions
    /\ NumOpen = 1

\* C3: when every register_position is made for a trade that
\* can_place_trade allows in the manager's state at that moment, the number
\* of active positions never exceeds max_positions, however update_position
\* and close_position calls are interleaved.
C3_PositionLimit ==
    NumOpen <= max_positions

\* the limit is reached by a registration
C3_Witness ==
    /\ call.op = "register_position"
    /\ max_positions = 2
    /\ NumOpen = 2

\* The checks of can_place_trade as section 4.2 of the specification words
\* them, for a trade <<action, quantity, entry, stop, target>> on a symbol.
ClaimProfit(o) == IF o[1] = "BUY" THEN o[5][1] - o[3] ELSE o[3] - o[5][1]

ClaimLoss(o) == IF o[1] = "BUY" THEN o[3] - o[4] ELSE o[4] - o[3]

ClaimExistingRisk(sym) ==
    SumRisk({id \in DOMAIN active_positions :
                active_positions[id].symbol = sym})

ClaimNewRisk(o) == Abs(o[3] - o[4]) * o[2]

ClaimFailsMaxPositions == ~(NumOpen < max_positions)

ClaimFailsQuantity(o) == ~(o[2] > 0)

ClaimFailsPriceLevels(o) == ~(o[3] > 0 /\ o[4] > 0)

ClaimFailsPotentialLoss(o) == o[5] # None /\ ClaimLoss(o) <= 0

\* profit / loss < 3/2, for a positive loss
ClaimFailsRiskReward(o) ==
    o[5] # None /\ ClaimLoss(o) > 0 /\ 2 * ClaimProfit(o) < 3 * ClaimLoss(o)

\* (existing + newRisk) / currentBalance > 2/100, for a positive balance
ClaimFailsSymbolRisk(sym, o) ==
    100 * (ClaimExistingRisk(sym) + ClaimNewRisk(o)) > 2 * current_balance

\* dailyPnl < -(currentBalance * 5/100)
ClaimFailsDailyLoss == 100 * daily_pnl < -(5 * current_balance)

\* (peakBalance - currentBalance) / peakBalance > 10/100
ClaimFailsDrawdown ==
    peak_balance > 0 /\ 10 * (peak_balance - current_balance) > peak_balance

ClaimChecks1to4Pass(o) ==
    /\ ~ClaimFailsMaxPositions
    /\ ~ClaimFailsQuantity(o)
    /\ ~ClaimFailsPriceLevels(o)
    /\ ~ClaimFailsPotentialLoss(o)
    /\ ~ClaimFailsRiskReward(o)

\* C4 as claimed: with a positive balance, whenever checks 1 to 4 pass and
\* (existing + newRisk) / currentBalance > maxRiskPerSymbol, can_place_trade
\* rejects with the per-symbol risk reason, for every number of open
\* positions on the symbol (none included).
C4_SymbolRiskRejected ==
    \A sym \in Symbols, o \in ProposedOrders :
       (current_balance > 0 /\ ClaimChecks1to4Pass(o)
        /\ ClaimFailsSymbolRisk(sym, o))
       => can_place_trade(sym, o[1], o[2], o[3], o[4], o[5]) =
             Returned(FALSE, "Maximum risk per symbol exceeded")

\* the verdict section 4.2 prescribes: the reason of the first failing check
ClaimVerdict(sym, o) ==
    IF ClaimFailsMaxPositions
    THEN Returned(FALSE, "Maximum positions reached")
    ELSE IF ClaimFailsQuantity(o)
    THEN Returned(FALSE, "Invalid quantity")
    ELSE IF ClaimFailsPriceLevels(o)
    THEN Returned(FALSE, "Invalid price levels")
    ELSE IF ClaimFailsPotentialLoss(o)
    THEN Returned(FALSE, "Invalid potential loss")
    ELSE IF ClaimFailsRiskReward(o)
    THEN Returned(FALSE, "Risk-reward ratio too low")
    ELSE IF ClaimFailsSymbolRisk(sym, o)
    THEN Returned(FALSE, "Maximum risk per symbol exceeded")
    ELSE IF ClaimFailsDailyLoss
    THEN Returned(FALSE, "Daily loss limit exceeded")
    ELSE IF ClaimFailsDrawdown
    THEN Returned(FALSE, "Maximum drawdown exceeded")
    ELSE Returned(TRUE, "Trade validated")

\* C5 as claimed: with a positive balance, can_place_trade returns the
\* reason of the first failing check in the order max positions, quantity,
\* price levels, potential loss, risk-reward, per-symbol risk, daily loss,
\* drawdown, and (TRUE, "Trade validated") exactly when no check fails.
C5_FirstFailingCheck ==
    \A sym \in Symbols, o \in ProposedOrders :
       current_balance > 0
       => can_place_trade(sym, o[1], o[2], o[3], o[4], o[5]) =
             ClaimVerdict(sym, o)

\* C6 as claimed: every call of can_place_trade, in every reachable state,
\* completes with an (allowed, reason) pair and never with a raised error.
C6_NeverRaises ==
    call.op = "can_place_trade" => call.ret.outcome = "return"

\* C7: a can_place_trade call, allowing or rejecting, leaves
\* active_positions and every counter of the manager unchanged.
C7_NoSideEffects ==
    [][call'.op = "can_place_trade" => UNCHANGED manager]_vars

\* a trade was allowed while a position is open and P&L has been recorded
C7_Witness ==
    /\ call.op = "can_place_trade"
    /\ call.ret = Returned(TRUE, "Trade validated")
    /\ NumOpen = 1
    /\ daily_pnl # 0

\* C8: a successful close_position computes realized_pnl as
\* (exit - entry) * qty for Long and (entry - exit) * qty for Short, adds 1
\* to total_trades and realized_pnl to daily_pnl, counts a win (and adds to
\* total_profit) only when realized_pnl > 0 and otherwise, a tie included,
\* counts a loss (and adds |realized_pnl| to total_loss), and removes the id.
C8_CloseAccounting ==
    [][SuccessfulClose(call') =>
         LET p == active_positions[call'.id]
             x == call'.ret.exit_price
             pnl == IF p.action = "BUY"
                    THEN (x - p.entry_price) * p.quantity
                    ELSE (p.entry_price - x) * p.quantity
         IN  /\ p.action \in {"BUY", "SELL"}
             /\ call'.ret.realized_pnl = pnl
             /\ total_trades' = total_trades + 1
             /\ daily_pnl' = daily_pnl + pnl
             /\ pnl > 0 => /\ winning_trades' = winning_trades + 1
                           /\ total_profit' = total_profit + pnl
                           /\ losing_trades' = losing_trades
                           /\ total_loss' = total_loss
             /\ pnl <= 0 => /\ losing_trades' = losing_trades + 1
                            /\ total_loss' = total_loss + Abs(pnl)
                            /\ winning_trades' = winning_trades
                            /\ total_profit' = total_profit
             /\ call'.id \notin DOMAIN active_positions']_vars

\* a short position was closed at its entry price and counted as lost
C8_Witness ==
    /\ SuccessfulClose(call)
    /\ call.ret.action = "SELL"
    /\ call.ret.realized_pnl = 0
    /\ losing_trades = 1
    /\ total_trades = 1

\* C9: a close_position call that directly follows a successful
\* close_position of the same id returns the empty dict and changes
\* neither active_positions nor any counter.
C9_SecondCloseNoOp ==
    [][(SuccessfulClose(call) /\ call'.op = "close_position"
        /\ call'.id = call.id)
       => (call'.ret = EmptyDict /\ UNCHANGED manager)]_vars

\* a close found its id gone after the only trade so far was recorded
C9_Witness ==
    /\ call.op = "close_position"
    /\ call.ret = EmptyDict
    /\ total_trades = 1
    /\ active_positions = <<>>

\* C10: update_position and close_position called with an id that is not
\* in active_positions return the empty dict, raise nothing and leave
\* positions and counters unchanged.
C10_UnknownIdNoOp ==
    [][(call'.op \in {"update_position", "close_position"}
        /\ call'.id \notin DOMAIN active_positions)
       => (call'.ret = EmptyDict /\ UNCHANGED manager)]_vars

\* an update missed its id while another position is open
C10_Witness ==
    /\ call.op = "update_position"
    /\ call.ret = EmptyDict
    /\ NumOpen = 1

\* C11: update_position on an open id changes only that position's
\* current_price and unrealized_pnl (Long: (current - entry) * quantity,
\* Short: (entry - current) * quantity); its risk_amount, entry_price,
\* stop_loss, target_price, quantity, action and status, every other
\* position and every counter are unchanged.
C11_UpdateFrame ==
    [][(call'.op = "update_position"
        /\ call'.id \in DOMAIN active_positions)
       => LET old == active_positions[call'.id]
              new == active_positions'[call'.id]
              current == new.current_price
              pnl == IF old.action = "BUY"
                     THEN (current - old.entry_price) * old.quantity
                     ELSE (old.entry_price - current) * old.quantity
          IN  /\ old.action \in {"BUY", "SELL"}
              /\ call'.ret = new
              /\ new.unrealized_pnl = pnl
              /\ new = [old EXCEPT !.current_price = current,
                                   !.unrealized_pnl = pnl]
              /\ DOMAIN active_positions' = DOMAIN active_positions
              /\ \A id \in DOMAIN active_positions \ {call'.id} :
                    active_positions'[id] = active_positions[id]
              /\ UNCHANGED <<counters, max_positions>>]_vars

\* one of two open positions was repriced, after a trade was recorded
C11_Witness ==
    /\ call.op = "update_position"
    /\ call.ret # EmptyDict
    /\ NumOpen = 2
    /\ active_positions[call.id].unrealized_pnl # 0
    /\ active_positions[call.id].risk_amount > 0
    /\ \E id \in DOMAIN active_positions : active_positions[id].unrealized_pnl = 0
    /\ total_trades > 0

\* C12: check_exit_conditions returns (TRUE, "Stop loss triggered") for a
\* Long position iff current_price <= stop_loss and for a Short position
\* iff current_price >= stop_loss; otherwise, when a target is set, it
\* returns (TRUE, "Target price reached") iff current_price >= target
\* (Long) or current_price <= target (Short); otherwise it returns FALSE.
\* The stop-loss test comes first, and the call changes neither the
\* position nor the manager.
C12_ExitConditions ==
    [][call'.op = "check_exit_conditions"
       => LET pos == call'.position
              price == call'.current_price
              ret == call'.ret
              long == pos.action = "BUY"
              short == pos.action = "SELL"
              stopped == \/ long /\ price <= pos.stop_loss
                         \/ short /\ price >= pos.stop_loss
              targeted == /\ pos.target_price # None
                          /\ \/ long /\ price >= pos.target_price[1]
                             \/ short /\ price <= pos.target_price[1]
          IN  /\ UNCHANGED manager
              /\ pos = EmptyDict => ret[1] = FALSE
              /\ pos # EmptyDict =>
                    /\ long \/ short
                    /\ \E id \in DOMAIN active_positions' :
                          active_positions'[id] = pos
                    /\ (ret = <<TRUE, "Stop loss triggered">>) <=> stopped
                    /\ ~stopped =>
                          ((ret = <<TRUE, "Target price reached">>) <=> targeted)
                    /\ (~stopped /\ ~targeted) => ret[1] = FALSE]_vars

\* the price is at the stop of a long position and beyond its target too:
\* the stop is reported
C12_Witness ==
    /\ call.op = "check_exit_conditions"
    /\ call.position # EmptyDict
    /\ call.position.action = "BUY"
    /\ call.position.target_price # None
    /\ call.current_price = call.position.stop_loss
    /\ call.current_price >= call.position.target_price[1]
    /\ call.ret = <<TRUE, "Stop loss triggered">>

SizingCalled(c) == c.op = "calculate_position_size"

\* floor(accountBalance * maxRiskPerTrade / |entryPrice - stopLoss|), with
\* maxRiskPerTrade = 1/100; \div rounds towards minus infinity
ClaimSize(account_balance, entry_price, stop_loss) ==
    IF entry_price <= 0 \/ stop_loss <= 0 \/ entry_price = stop_loss
    THEN 0
    ELSE account_balance \div (100 * Abs(entry_price - stop_loss))

\* C13 as claimed: calculate_position_size returns 0 when entry_price <= 0,
\* stop_loss <= 0 or entry_price = stop_loss, and otherwise
\* floor(account_balance * max_risk_per_trade / |entry_price - stop_loss|),
\* for every account balance.
C13_FloorOfRiskQuotient ==
    SizingCalled(call)
    => call.ret = ClaimSize(call.account_balance, call.entry_price,
                            call.stop_loss)

RiskPerUnit(c) == Abs(c.entry_price - c.stop_loss)

PositivePrices(c) == c.entry_price > 0 /\ c.stop_loss > 0

\* C14 as claimed: over all account balances and all positive prices, of
\* two calculate_position_size calls the one with the larger balance (same
\* risk per unit) returns at least as much, and the one with the larger
\* risk per unit (same balance) returns at most as much.
C14_Monotone ==
    [][(SizingCalled(call) /\ SizingCalled(call')
        /\ PositivePrices(call) /\ PositivePrices(call'))
       => /\ (RiskPerUnit(call) = RiskPerUnit(call')
              /\ call.account_balance <= call'.account_balance)
             => call.ret <= call'.ret
          /\ (call.account_balance = call'.account_balance
              /\ RiskPerUnit(call) <= RiskPerUnit(call'))
             => call.ret >= call'.ret]_vars

\* C14, amended: the result is non-decreasing in the balance for every
\* balance (risk per unit fixed), and non-increasing in the risk per unit
\* when the balance is not negative and the risk per unit is positive
\* (entry_price # stop_loss), for positive prices.
C14_MonotoneNonNegative ==
    [][(SizingCalled(call) /\ SizingCalled(call')
        /\ PositivePrices(call) /\ PositivePrices(call'))
       => /\ (RiskPerUnit(call) = RiskPerUnit(call')
              /\ call.account_balance <= call'.account_balance)
             => call.ret <= call'.ret
          /\ (call.account_balance = call'.account_balance
              /\ call.account_balance >= 0
              /\ 0 < RiskPerUnit(call)
              /\ RiskPerUnit(call) <= RiskPerUnit(call'))
             => call.ret >= call'.ret]_vars

\* a position was sized for a balance below an earlier, larger one
C14_Witness ==
    /\ SizingCalled(call)
    /\ PositivePrices(call)
    /\ call.ret > 0
    /\ call.account_balance = current_balance
    /\ peak_balance > current_balance

----------------------------------------------------------------------------
(* The properties of the level calculator.  The 0 axis is the principal    *)
(* axis; prices are in hundredths.                                         *)

Calculated(c) == c.op = "calculate"

Generated(c) == c.op = "_gann_square_of_9"

\* the rings of the principal axis for the price p
PrincipalRings(p) == Range(_gann_square_of_9(p)["0"])

\* C15: for every price p > 0 for which calculate returns a result,
\* sell_below < p < buy_above, buy_above is the smallest ring of the 0 axis
\* strictly above p and sell_below the largest one strictly below p.
C15_Straddle ==
    (Calculated(call) /\ call.price > 0 /\ call.ret # EmptyDict)
    => LET p == call.price
           rings == PrincipalRings(p)
       IN  /\ call.ret.sell_below < p
           /\ p < call.ret.buy_above
           /\ call.ret.buy_above \in rings
           /\ call.ret.sell_below \in rings
           /\ \A v \in rings : v > p => call.ret.buy_above <= v
           /\ \A v \in rings : v < p => v <= call.ret.sell_below

\* a result for a price that is itself a ring of the 0 axis, above the centre
C15_Witness ==
    /\ Calculated(call)
    /\ call.ret # EmptyDict
    /\ call.price \in PrincipalRings(call.price)
    /\ call.price > 100 * floor_sqrt(call.price) * floor_sqrt(call.price)

Ascending(seq) == \A i \in 1 .. Len(seq) - 1 : seq[i] <= seq[i + 1]

\* C16 as claimed: for every price and every one of the 8 axes, the ring
\* list is in ascending order (each element at most the next), the rings
\* below the centre included.
C16_RingsAscending ==
    Generated(call) => \A angle \in Range(angles) : Ascending(call.ret[angle])

\* the price is not positive, or the 0 axis has no ring strictly above it
\* or none strictly below it
NoStraddle(p) ==
    \/ p <= 0
    \/ ~\E v \in PrincipalRings(p) : v > p
    \/ ~\E v \in PrincipalRings(p) : v < p

\* C17: calculate returns the empty dict whenever the price is <= 0 or the
\* 0 axis has no ring strictly above or none strictly below the price, and
\* every result it returns has its buy_above and its sell_below among the
\* rings of the 0 axis.
C17_NoResultWithoutStraddle ==
    Calculated(call)
    => /\ NoStraddle(call.price) => call.ret = EmptyDict
       /\ call.ret # EmptyDict =>
             /\ call.ret.buy_above \in PrincipalRings(call.price)
             /\ call.ret.sell_below \in PrincipalRings(call.price)

\* no result for a perfect square, asked of a calculator without the rings
\* below the centre
C17_Witness ==
    /\ Calculated(call)
    /\ call.ret = EmptyDict
    /\ ~params.include_lower
    /\ call.price > 0
    /\ call.price = 100 * floor_sqrt(call.price) * floor_sqrt(call.price)

\* C18 as claimed: for every price p > 0, p < 1 included, a result of
\* calculate has sell_below > 0 and stoploss_long > 0.
C18_NoZeroLevel ==
    (Calculated(call) /\ call.ret # EmptyDict)
    => (call.ret.sell_below > 0 /\ call.ret.stoploss_long > 0)

Count(seq, v) == Cardinality({i \in DOMAIN seq : seq[i] = v})

CentreOnce(c) ==
    LET central_value == 100 * floor_sqrt(c.price) * floor_sqrt(c.price)
    IN  \A angle \in Range(angles) : Count(c.ret[angle], central_value) = 1

\* C19 as claimed: for every price p > 0 and every axis, the centre
\* floor(sqrt(p))^2 occurs exactly once in the axis's ring list, for every
\* configuration of positive increments.
C19_CentreOnce ==
    Generated(call) => CentreOnce(call)

\* C19, amended: the same when every increment is at least 0.125 (2
\* sixteenths), as the default increments are.
C19_CentreOnceCoarse ==
    (Generated(call) /\ \A k \in DOMAIN params.increments :
                           params.increments[k] >= 2)
    => CentreOnce(call)

\* the rings of a price below 1, whose centre is 0, for the defaults
C19_Witness ==
    /\ Generated(call)
    /\ params = default_params
    /\ call.price < 100
    /\ call.ret["0"][1] = 0

Prices_of(targets) == [i \in DOMAIN targets |-> targets[i].price]

NoDuplicate(seq) == \A i, j \in DOMAIN seq : seq[i] = seq[j] => i = j

\* C20: in every result of calculate no price occurs twice in buy_targets
\* and none twice in sell_targets.
C20_TargetsUnique ==
    (Calculated(call) /\ call.ret # EmptyDict)
    => /\ NoDuplicate(Prices_of(call.ret.buy_targets))
       /\ NoDuplicate(Prices_of(call.ret.sell_targets))

\* a result with three buy targets whose sell targets start from the
\* centre, while two axes hold the same rings
C20_Witness ==
    /\ Calculated(call)
    /\ call.ret # EmptyDict
    /\ Len(call.ret.buy_targets) = 3
    /\ \E i \in DOMAIN call.ret.sell_targets :
          /\ call.ret.sell_targets[i].price =
                100 * floor_sqrt(call.price) * floor_sqrt(call.price)
          /\ call.ret.sell_targets[i].price < call.ret.sell_below
    /\ _gann_square_of_9(call.price)["90"] = _gann_square_of_9(call.price)["270"]

\* the (angle, price) pairs collected for the buy side before the sort
BuyCandidates(p, buy_above) ==
    buy_targets_from(1, buy_above, _gann_square_of_9(p), <<>>, {})

\* the (angle, price) pairs collected for the sell side before the sort:
\* the centre when it lies below sell_below, then one pick per axis
SellCandidates(p, sell_below) ==
    LET central_value == 100 * floor_sqrt(p) * floor_sqrt(p)
        seeded == central_value < sell_below
    IN  sell_targets_from(1, sell_below, _gann_square_of_9(p),
                          IF seeded THEN <<<<"0", central_value>>>> ELSE <<>>,
                          IF seeded THEN {central_value} ELSE {})

CapCount == 3

Capped(kept, candidates) ==
    Len(kept) = IF Len(candidates) < CapCount THEN Len(candidates) ELSE CapCount

\* C21: in every result of calculate, buy_targets is sorted ascending by
\* price, has at most 3 entries and at most one per axis, and holds the
\* collected candidates nearest above buy_above; sell_targets is sorted
\* descending by price, has at most 3 entries and holds the collected
\* candidates nearest below sell_below.
C21_TargetsSortedCapped ==
    (Calculated(call) /\ call.ret # EmptyDict)
    => LET buy == call.ret.buy_targets
           sell == call.ret.sell_targets
           buy_candidates == BuyCandidates(call.price, call.ret.buy_above)
           sell_candidates == SellCandidates(call.price, call.ret.sell_below)
           rest(candidates, kept) ==
               {c \in Range(candidates) :
                   \A i \in DOMAIN kept : kept[i].price # c[2]}
       IN  /\ \A i \in 1 .. Len(buy) - 1 : buy[i].price <= buy[i + 1].price
           /\ \A i \in 1 .. Len(sell) - 1 : sell[i].price >= sell[i + 1].price
           /\ Capped(buy, buy_candidates)
           /\ Capped(sell, sell_candidates)
           /\ \A i, j \in DOMAIN buy : buy[i].angle = buy[j].angle => i = j
           /\ \A i \in DOMAIN buy :
                 <<buy[i].angle, buy[i].price>> \in Range(buy_candidates)
           /\ \A i \in DOMAIN sell :
                 <<sell[i].angle, sell[i].price>> \in Range(sell_candidates)
           /\ \A c \in rest(buy_candidates, buy) :
                 \A i \in DOMAIN buy : buy[i].price <= c[2]
           /\ \A c \in rest(sell_candidates, sell) :
                 \A i \in DOMAIN sell : sell[i].price >= c[2]

\* three targets were kept on each side out of more candidates
C21_Witness ==
    /\ Calculated(call)
    /\ call.ret # EmptyDict
    /\ Len(call.ret.buy_targets) = CapCount
    /\ Len(call.ret.sell_targets) = CapCount
    /\ Len(BuyCandidates(call.price, call.ret.buy_above)) > CapCount
    /\ Len(SellCandidates(call.price, call.ret.sell_below)) > CapCount

\* round(level * 0.998, 2) and round(level * 1.002, 2), in hundredths
ClaimStopLong(level) == RoundHalfEven(level * 998, 1000)

ClaimStopShort(level) == RoundHalfEven(level * 1002, 1000)

\* C22 as claimed: in every result of calculate,
\* stoploss_long = round(sell_below * 0.998, 2) < sell_below and
\* stoploss_short = round(buy_above * 1.002, 2) > buy_above.
C22_StopsBeyondStraddle ==
    (Calculated(call) /\ call.ret # EmptyDict)
    => /\ call.ret.stoploss_long = ClaimStopLong(call.ret.sell_below)
       /\ call.ret.stoploss_long < call.ret.sell_below
       /\ call.ret.stoploss_short = ClaimStopShort(call.ret.buy_above)
       /\ call.ret.stoploss_short > call.ret.buy_above

\* C22, amended: the stop losses are the rounded products and never lie
\* inside the straddle (stoploss_long <= sell_below, stoploss_short >=
\* buy_above); they lie strictly beyond a level above 2.50, and a level
\* below 2.50 is its own stop loss.
C22_StopsNotInsideStraddle ==
    (Calculated(call) /\ call.ret # EmptyDict)
    => LET r == call.ret
       IN  /\ r.stoploss_long = ClaimStopLong(r.sell_below)
           /\ r.stoploss_short = ClaimStopShort(r.buy_above)
           /\ r.stoploss_long <= r.sell_below
           /\ r.stoploss_short >= r.buy_above
           /\ r.sell_below > 250 => r.stoploss_long < r.sell_below
           /\ r.buy_above > 250 => r.stoploss_short > r.buy_above
           /\ r.sell_below < 250 => r.stoploss_long = r.sell_below
           /\ r.buy_above < 250 => r.stoploss_short = r.buy_above

\* a straddle around 2.50: the lower level is its own stop loss, the
\* upper one has its stop loss beyond it
C22_Witness ==
    /\ Calculated(call)
    /\ call.ret # EmptyDict
    /\ 0 < call.ret.sell_below
    /\ call.ret.sell_below < 250
    /\ call.ret.buy_above > 250
    /\ call.ret.stoploss_long = call.ret.sell_below
    /\ call.ret.stoploss_short > call.ret.buy_above

----------------------------------------------------------------------------
(* The orchestrator's use of the manager.                                  *)

Threads == {"signal", "monitor", "main"}

\* the thread is inside a method of the manager that writes to it
InMutation(thread) ==
    \/ /\ thread = "signal"
       /\ pc[thread] \in {"calculate_position_size", "register_position",
                          "register_option_position"}
    \/ /\ thread = "monitor"
       /\ pc[thread] \in {"update_position", "close_position"}
    \/ /\ thread = "main"
       /\ pc[thread] = "close_position"

\* C24: the signal processor (register_position, calculate_position_size),
\* the position monitor (update_position, close_position) and the shutdown
\* path (close_position for every position) are never inside a mutation
\* of the risk manager at the same time.
C24_MutationsSerialized ==
    \A t1, t2 \in Threads :
        (InMutation(t1) /\ InMutation(t2)) => t1 = t2

\* the exit order for the position was placed and the broker accepted it
ExitOrderPlaced(id) ==
    id \in DOMAIN gateway.exits /\ gateway.exits[id] = "success"

\* the monitor's close_position call returns at this step
MonitorCloseReturns ==
    /\ pc["monitor"] = "close_position"
    /\ pc'["monitor"] # "close_position"

\* C25: the monitor places the exit order before it calls close_position:
\* whenever its close_position call removes a position from
\* active_positions and counts it in the statistics, the exit order for
\* that position has been placed successfully, so a failed exit order
\* leaves the position open.
C25_ExitOrderBeforeClose ==
    [][(MonitorCloseReturns /\ SuccessfulClose(call'))
       => (/\ monitored_id \notin DOMAIN active_positions'
           /\ ExitOrderPlaced(monitored_id))]_vars

\* a register_position call of the signal processor returns at this step
SignalRegisterReturns ==
    /\ pc["signal"] \in {"register_position", "register_option_position"}
    /\ pc'["signal"] # pc["signal"]

\* the ids the broker has supplied with a successful order
IssuedIds == {GatewayIds[i] : i \in 1 .. gateway.issued}

\* C26: every position the signal processor registers was validated first:
\* an earlier can_place_trade call for the same symbol, quantity and price
\* levels returned allowed, and a successful order supplied the id.
C26_RegisteredWasValidated ==
    [][SignalRegisterReturns =>
          LET position == active_positions'[call'.id]
          IN  /\ call'.id \in IssuedIds
              /\ Trade(position.symbol, position.quantity,
                       position.entry_price, position.stop_loss,
                       position.target_price) \in validated]_vars

\* the orchestrator only buys: the equity, a call or a put; SELL is short
IsLong(position) == position.action \in {"BUY", "BUY_CE", "BUY_PE"}

\* the stop-loss or the target condition of the position holds at price
ExitConditionHolds(position, price) ==
    IF IsLong(position)
    THEN \/ price <= position.stop_loss
         \/ position.target_price # None /\ price >= position.target_price[1]
    ELSE \/ price >= position.stop_loss
         \/ position.target_price # None /\ price <= position.target_price[1]

\* the monitor's pass is done with a position at this step
MonitorVisitEnds ==
    Len(monitoring'.visited) > Len(monitoring.visited)

\* C27: for every position the orchestrator registered, equity and option
\* legs alike, when a monitor pass observes a price that satisfies the
\* position's stop-loss or target condition, the position is closed in the
\* risk manager during that pass (so no position stays open forever while
\* its stop-loss condition holds on every tick).
C27_ExitClosesInPass ==
    [][(/\ MonitorVisitEnds
        /\ monitoring.current_price # None
        /\ ExitConditionHolds(monitoring.positions[monitored_id],
                              monitoring.current_price[1]))
       => monitored_id \notin DOMAIN active_positions']_vars

\* the monitor is in the loop over its snapshot
InPass == pc["monitor"] \notin {"pass", "stopped"}

\* the shutdown is in the loop over its snapshot
InShutdownLoop == pc["main"] = "close_position"

StartLoads ==
    /\ At("main", "constructed")
    /\ pc'["main"] = "loop"
    /\ positions_file # None

\* C29: crash-recovery round trip: after the orchestrator has saved the
\* risk manager's active_positions at stop and loaded the snapshot at the
\* next start, the risk manager's active_positions equals the saved map,
\* every field of every position reproduced.
C29_RecoveryRoundTrip ==
    [][StartLoads => active_positions' = positions_file[1]]_vars

\* the quotient q = <<a, b>> is the number num / den
IsQuotient(q, num, den) ==
    /\ q[2] > 0
    /\ den > 0
    /\ q[1] * den = num * q[2]

\* C30: get_trade_statistics changes nothing and returns
\* win_rate = winning_trades / max(total_trades, 1), which lies in [0, 1],
\* profit_factor = total_profit / max(total_loss, 1),
\* net_profit = total_profit - total_loss,
\* drawdown = (peak_balance - current_balance) / peak_balance when
\* peak_balance > 0 and 0 otherwise, and
\* current_positions = len(active_positions).
C30_TradeStatistics ==
    [][call'.op = "get_trade_statistics" =>
          LET stats == call'.ret
          IN  /\ UNCHANGED manager
              /\ IsQuotient(stats.win_rate, winning_trades,
                            IF total_trades > 1 THEN total_trades ELSE 1)
              /\ 0 <= stats.win_rate[1]
              /\ stats.win_rate[1] <= stats.win_rate[2]
              /\ IsQuotient(stats.profit_factor, total_profit,
                            IF total_loss > 1 THEN total_loss ELSE 1)
              /\ stats.net_profit = total_profit - total_loss
              /\ IF peak_balance > 0
                 THEN IsQuotient(stats.drawdown,
                                 peak_balance - current_balance, peak_balance)
                 ELSE stats.drawdown[1] = 0
              /\ stats.current_positions = NumOpen]_vars

\* statistics read with a trade won, a trade lost, a position open and the
\* balance below its peak
C30_Witness ==
    /\ call.op = "get_trade_statistics"
    /\ call.ret.winning_trades = 1
    /\ call.ret.losing_trades = 1
    /\ call.ret.current_positions = 1
    /\ call.ret.drawdown = <<500, 1000>>
    /\ call.ret.net_profit # call.ret.total_profit

----------------------------------------------------------------------------
(* The double close.                                                       *)

\* both close_position calls have ended
RaceOver == \A thread \in Closers : frames[thread].at = "done"

\* the call of the thread returned the closed position
ClosedBy(thread) ==
    frames[thread].ret \notin {EmptyDict, Raised("KeyError")}

\* C31: under any interleaving of the monitor thread and the shutdown path
\* closing the same position id, the position is accounted exactly once:
\* total_trades grows by 1, daily_pnl by one realized_pnl, and neither
\* close_position call fails with an error.
C31_AccountedOnce ==
    RaceOver =>
        /\ \A thread \in Closers : frames[thread].ret # Raised("KeyError")
        /\ total_trades = 1
        /\ \E thread \in Closers :
              /\ ClosedBy(thread)
              /\ daily_pnl = frames[thread].ret.realized_pnl

----------------------------------------------------------------------------
(* The account metrics.                                                    *)

\* C32: calculate_position_size changes nothing but current_balance and
\* peak_balance: it leaves both unchanged when it rejects a non-positive
\* entry_price or stop_loss, and otherwise sets current_balance to the
\* account balance and peak_balance to max(peak_balance, account_balance),
\* also when it returns 0 because entry_price = stop_loss; positions and
\* trade counters are never touched.
C32_SizingFrame ==
    [][SizingCalled(call') =>
          /\ UNCHANGED <<active_positions, daily_pnl, total_trades,
                         winning_trades, losing_trades, total_profit,
                         total_loss, max_positions>>
          /\ IF call'.entry_price <= 0 \/ call'.stop_loss <= 0
             THEN /\ UNCHANGED <<current_balance, peak_balance>>
                  /\ call'.ret = 0
             ELSE /\ current_balance' = call'.account_balance
                  /\ peak_balance' =
                         IF call'.account_balance > peak_balance
                         THEN call'.account_balance ELSE peak_balance
                  /\ call'.entry_price = call'.stop_loss => call'.ret = 0]_vars

\* a size of 0 for entry_price = stop_loss has lowered the balance under
\* its peak, with a position open and a trade closed
C32_Witness ==
    /\ SizingCalled(call)
    /\ call.entry_price = call.stop_loss
    /\ call.entry_price > 0
    /\ call.ret = 0
    /\ current_balance = 250
    /\ peak_balance = 1000
    /\ NumOpen = 1
    /\ total_trades = 1

\* C33: in every reachable state peak_balance >= current_balance, the peak
\* never decreases across calculate_position_size and
\* update_account_metrics calls, and so the drawdown that can_place_trade
\* and get_trade_statistics use is never negative.
C33_PeakAboveBalance ==
    [][/\ peak_balance >= current_balance
       /\ peak_balance' >= current_balance'
       /\ peak_balance' >= peak_balance
       /\ peak_balance' > 0 => peak_balance' - current_balance' >= 0
       /\ call'.op = "get_trade_statistics"
          => /\ call'.ret.drawdown[1] >= 0
             /\ call'.ret.drawdown[2] > 0]_vars

\* the statistics are read with the balance under its peak
C33_Witness ==
    /\ call.op = "get_trade_statistics"
    /\ peak_balance = 1000
    /\ current_balance = 250
    /\ call.ret.drawdown = <<750, 1000>>
C35_CloseRealizesTheMark ==
    [][(/\ call.op = "update_position"
        /\ call.ret # EmptyDict
        /\ SuccessfulClose(call')
        /\ call'.id = call.id
        /\ call'.ret.exit_price = call.ret.current_price)
       => /\ call'.ret.realized_pnl = call.ret.unrealized_pnl
          /\ call'.ret.action = call.ret.action]_vars

\* an option leg was marked at a price away from its entry and closed there
C35_Witness ==
    /\ SuccessfulClose(call)
    /\ call.ret.action = "BUY_CE"
    /\ call.ret.current_price = call.ret.exit_price
    /\ call.ret.exit_price # call.ret.entry_price
    /\ call.ret.realized_pnl = call.ret.unrealized_pnl
    /\ call.ret.realized_pnl # 0

\* C36: calculate never raises: whatever the price and the configuration,
\* a list of fewer than 8 increments included, the call returns a result
\* or the no-result value, and an exception inside the try (the KeyError
\* of an axis without rings) comes out as the no-result value.
C36_CalculateNeverRaises ==
    Calculated(call)
    => /\ ~is_raise(call.ret)
       /\ (call.price > 0 /\ is_raise(calculate_body(call.price)))
          => call.ret = EmptyDict

\* a calculator with three increments was asked about a price with a
\* straddle: the target collection raised and the call returned {}
C36_Witness ==
    /\ Calculated(call)
    /\ Len(params.increments) = 3
    /\ call.price > 0
    /\ _find_buy_sell_levels(call.price, _gann_square_of_9(call.price))[1] # None
    /\ _find_buy_sell_levels(call.price, _gann_square_of_9(call.price))[2] # None
    /\ calculate_body(call.price) = Raised("KeyError")
    /\ call.ret = EmptyDict

\* C37: in every result of calculate every buy target lies strictly above
\* buy_above and every sell target strictly below sell_below, hence the
\* buy targets above and the sell targets below the input price.
C37_TargetsBeyondStraddle ==
    (Calculated(call) /\ call.ret # EmptyDict)
    => /\ \A i \in DOMAIN call.ret.buy_targets :
             /\ call.ret.buy_targets[i].price > call.ret.buy_above
             /\ call.ret.buy_targets[i].price > call.ret.input_price
       /\ \A i \in DOMAIN call.ret.sell_targets :
             /\ call.ret.sell_targets[i].price < call.ret.sell_below
             /\ call.ret.sell_targets[i].price < call.ret.input_price

\* a result whose sell_below is the centre of the square, with targets on
\* both sides: the centre is not among the sell targets
C37_Witness ==
    /\ Calculated(call)
    /\ call.ret # EmptyDict
    /\ call.ret.sell_below = 100 * floor_sqrt(call.price) * floor_sqrt(call.price)
    /\ Len(call.ret.buy_targets) = CapCount
    /\ Len(call.ret.sell_targets) >= 1
    /\ \A i \in DOMAIN call.ret.sell_targets :
          call.ret.sell_targets[i].price < call.ret.sell_below
    /\ \A i \in DOMAIN call.ret.buy_targets :
          call.ret.buy_targets[i].price > call.ret.buy_above

\* the axis labels of a list of formatted targets
Angles_of(targets) == [i \in DOMAIN targets |-> targets[i].angle]

\* C38: in every result of calculate each axis label occurs at most once
\* among the buy targets and at most once among the sell targets, the
\* centre seed included.
C38_OneTargetPerAxis ==
    (Calculated(call) /\ call.ret # EmptyDict)
    => /\ NoDuplicate(Angles_of(call.ret.buy_targets))
       /\ NoDuplicate(Angles_of(call.ret.sell_targets))

\* C38 as the code has it: each label occurs at most once among the buy
\* targets; among the sell targets every label but that of the principal
\* axis occurs at most once, and the principal axis occurs twice only
\* when one of its two targets is the centre seed.
C38_OneTargetPerAxisBesideSeed ==
    (Calculated(call) /\ call.ret # EmptyDict)
    => LET sell == call.ret.sell_targets
           centre == 100 * floor_sqrt(call.price) * floor_sqrt(call.price)
       IN  /\ NoDuplicate(Angles_of(call.ret.buy_targets))
           /\ \A i, j \in DOMAIN sell :
                 (sell[i].angle = sell[j].angle /\ i # j)
                 => /\ sell[i].angle = "0"
                    /\ sell[i].price = centre \/ sell[j].price = centre
                    /\ centre < call.ret.sell_below
           /\ Count(Angles_of(sell), "0") <= 2

\* the centre seed and the pick of the principal axis are both among the
\* sell targets
C38_Witness ==
    /\ Calculated(call)
    /\ call.ret # EmptyDict
    /\ Count(Angles_of(call.ret.sell_targets), "0") = 2
    /\ \E i \in DOMAIN call.ret.sell_targets :
          /\ call.ret.sell_targets[i].angle = "0"
          /\ call.ret.sell_targets[i].price =
                100 * floor_sqrt(call.price) * floor_sqrt(call.price)
    /\ NoDuplicate(Angles_of(call.ret.buy_targets))
    /\ Len(call.ret.buy_targets) = CapCount

\* the times execute is to have slept after n failures followed by
\* another attempt: delay * backoff_factor^(k - 1) after the k-th
ClaimedWaits(n) ==
    [k \in 1 .. n |-> retry.delay * Power(retry.backoff_factor, k - 1)]

\* the call of execute is over
ExecuteOver == retry.at \in {"returned", "raised"}

\* what execute has done so far is what the claim allows
RetriedAsClaimed ==
    /\ retry.invocations <= retry.max_attempts
    /\ retry.at = "returned"
       => /\ retry.invocations = Len(retry.failures) + 1
          /\ retry.slept = ClaimedWaits(Len(retry.failures))
          /\ call = Call("execute", "", "result")
    /\ retry.at = "raised"
       => /\ retry.invocations = retry.max_attempts
          /\ Len(retry.failures) = retry.max_attempts
          /\ retry.slept = ClaimedWaits(retry.max_attempts - 1)
          /\ call = Call("execute", "", Raised(retry.failures[retry.max_attempts]))
    /\ retry.at \in {"while", "func"}
       => /\ retry.invocations = Len(retry.failures)
          /\ retry.at = "func" \/ retry.invocations < retry.max_attempts
             => retry.slept = ClaimedWaits(Len(retry.failures))
    /\ retry.at = "sleep"
       => /\ Len(retry.failures) < retry.max_attempts
          /\ retry.slept = ClaimedWaits(Len(retry.failures) - 1)

\* C39: execute terminates for every max_attempts >= 1; it invokes func at
\* most max_attempts times, returns the result of the first invocation
\* that succeeds and invokes nothing after it, sleeps
\* delay * backoff_factor^(k - 1) between the k-th failure and the next
\* attempt and not after the last, and after max_attempts failures raises
\* the last of them.
C39_RetryTerminates ==
    /\ []RetriedAsClaimed
    /\ [][ExecuteOver => UNCHANGED retry]_vars
    /\ <>ExecuteOver

\* the third invocation succeeded after two failures and two sleeps, the
\* second twice as long as the first
C39_Witness ==
    /\ retry.at = "returned"
    /\ retry.max_attempts = 3
    /\ retry.invocations = 3
    /\ retry.delay = 2
    /\ retry.backoff_factor = 2
    /\ retry.slept = <<2, 4>>
    /\ Len(retry.failures) = 2

====
